---- MODULE Spec2Model ----
(***************************************************************************)
(* A state-machine model of src/youtube_downloader_pro.py: the history     *)
(* log, the metadata cache, and the orchestration between the Tk event     *)
(* loop (the UI thread) and the probe / download / search / installation   *)
(* worker threads.                                                         *)
(*                                                                         *)
(* One UI thread handles user events, the after(0, ...) callbacks in the   *)
(* order they were queued (uiQueue) and the delayed after(ms, ...) timers. *)
(* Each worker thread is a record with a position (pc); one action is one  *)
(* step of one thread.                                                     *)
(***************************************************************************)
EXTENDS Integers, Sequences, FiniteSets, TLC

\* ------------------------------------------------------------------ bounds

MaxAppends == 22        \* add_to_history calls in HistSpec (more than the cap)
MaxTicks == 2           \* clock advances
MaxProbes == 2          \* probe workers ever started
MaxDownloads == 2       \* download workers ever started in DlSpec
MaxTasks == 1           \* download workers ever started in OrderSpec
MaxProgress == 1        \* progress-hook invocations per download
MaxInstalls == 2        \* installation workers ever started
MaxQueue == 3           \* after(0, ...) callbacks waiting at once
MaxPendingResets == 1   \* after(3000, ...) status resets waiting at once
MaxSearches == 1        \* search workers ever started

\* ------------------------------------------------------- program constants

HistoryCap == 20        \* add_to_history: len(self.download_history) > 20
FreshnessWindow == 300  \* analyze_url_fast: time.time() - cache_time < 300
HistoryTitleLen == 40   \* add_to_history: info.get('title', 'Unknown')[:40]
InfoTitleLen == 60      \* _analyze_fast_thread: info.get('title', ...)[:60]
SearchTitleLen == 60    \* _search_fast_thread: entry.get('title', ...)[:60]

\* ------------------------------------------------------------------- values

\* An optional value: <<>> is Python's None / a missing key, <<x>> holds x.
None == <<>>
Some(x) == <<x>>

\* The history file: missing, unreadable, or a pickled list.
MissingFile == [kind |-> "missing", items |-> <<>>]
CorruptFile == [kind |-> "corrupt", items |-> <<>>]
PickledFile(items) == [kind |-> "pickled", items |-> items]

\* A URL text is a sequence of tokens; " " is white space, "http" a scheme
\* prefix, "youtube.com" and "youtu.be" the recognised hosts, "list" the path
\* of a playlist.
EmptyUrl == <<>>
BlankUrl == <<" ">>
PlainUrl == <<"abc">>
TubeUrl == <<"http", "youtu.be", "a">>
ListUrl == <<"http", "youtube.com", "list">>
Urls == {EmptyUrl, BlankUrl, PlainUrl, TubeUrl, ListUrl}

Formats == {"mp4", "mp3", "mkv"}

\* A title is a name and a length in characters; slicing shortens it.
Title(name, len) == [name |-> name, len |-> len]
Slice(title, n) == [title EXCEPT !.len = IF title.len < n THEN title.len ELSE n]

RECURSIVE lstrip(_)
lstrip(s) == IF s # <<>> /\ Head(s) = " " THEN lstrip(Tail(s)) ELSE s

RECURSIVE rstrip(_)
rstrip(s) ==
    IF s # <<>> /\ s[Len(s)] = " " THEN rstrip(SubSeq(s, 1, Len(s) - 1)) ELSE s

\* str.strip()
strip(s) == rstrip(lstrip(s))

\* 'x' in url
Contains(url, tok) == \E i \in 1..Len(url) : url[i] = tok

\* url.startswith('http')
StartsWithHttp(url) == url # <<>> /\ url[1] = "http"

\* hashlib.md5(url.encode()).hexdigest()
CacheKeyOf(url) == <<"md5", url>>

CacheKeys == {CacheKeyOf(u) : u \in Urls}

\* datetime.now().strftime("%H:%M")
FormatHM(t) == <<(t \div 3600) % 24, (t \div 60) % 60>>

\* ---------------------------------------------------------------- variables

VARIABLES
    url_entry,          \* text of self.url_entry
    download_btn,       \* state of self.download_btn: "normal" or "disabled"
    format_var,         \* self.format_var
    quality_var,        \* self.quality_var
    ffmpeg_available,   \* self.ffmpeg_available
    ffmpeg_installed,   \* environment: an ffmpeg executable can be found
    is_analyzing,       \* self.is_analyzing
    video_info_cache,   \* self.video_info_cache: key -> None or Some([time, info])
    current_video_info, \* self.current_video_info, what the status bar shows
    status_label,       \* text of self.status_label
    pending_resets,     \* after(3000, ...) status resets not yet fired
    download_history,   \* self.download_history
    store,              \* content of ~/.yt_pro_history.dat
    now,                \* time.time()
    probes,             \* probe workers: id -> [pc, url, key]
    downloads,          \* download workers: id -> [pc, url, format, hooks, ydl_opts, asked]
    installs,           \* installation workers: id -> [pc]
    searches,           \* search workers: id -> [pc, query]
    search_results,     \* what self.search_results_frame shows
    progress,           \* self.progress_bar and self.progress_label
    dialogs,            \* "FFmpeg Required" dialogs (show_ffmpeg_error) open
    install_btn,        \* state of self.install_ffmpeg_btn
    uiQueue,            \* after(0, ...) callbacks, oldest first
    timers,             \* delayed callbacks: after(500), after(1000), after(2000)
    scheduled,          \* per download worker: the callbacks it queued, in order
    handled,            \* per download worker: the callbacks the UI thread ran
    n_appends,          \* add_to_history calls so far
    appended,           \* items appended since the log was last empty
    trace               \* what the last step did, and on which thread

vars == <<url_entry, download_btn, format_var, quality_var, ffmpeg_available, ffmpeg_installed,
          is_analyzing, video_info_cache, current_video_info, status_label,
          pending_resets, download_history, store, now, probes, downloads,
          installs, searches, search_results, progress, dialogs, install_btn,
          uiQueue, timers, scheduled, handled, n_appends, appended, trace>>

uiVars == <<url_entry, download_btn, format_var>>
cacheVars == <<is_analyzing, video_info_cache, current_video_info>>
histVars == <<download_history, store, n_appends, appended>>
workerVars == <<probes, downloads, installs, searches>>
ghostVars == <<scheduled, handled>>
miscVars == <<progress, dialogs, install_btn>>

\* ---------------------------------------------------------- step effects

\* The effects of one step: the handler or worker step that ran, the thread
\* it ran on, and what it touched.
Eff(op, thread) ==
    [op |-> op, thread |-> thread,
     widget |-> FALSE,      \* called a widget's configure / set
     cache |-> FALSE,       \* wrote self.video_info_cache
     hist |-> FALSE,        \* wrote self.download_history
     prompt |-> "none",     \* messagebox.askyesno: "none", "yes" or "no"
     save |-> "none",       \* save_history: "none", "ok", "open_failed", "dump_failed"
     spawn |-> "none",      \* kind of worker thread started
     extract |-> FALSE,     \* called ydl.extract_info
     url |-> None,          \* the URL analyze_url_fast was called with
     lookup |-> "none",     \* cache lookup: "none", "absent", "hit" or "expired"
     age |-> 0,             \* age of the entry the lookup found
     blocking |-> "none"]   \* "subprocess" (ffmpeg -version), "urlretrieve" or "none"

\* ------------------------------------------------------------- history log

\* save_history: the three outcomes of open(..., 'wb') and pickle.dump.
SaveOutcomes == {"ok", "open_failed", "dump_failed"}

\* Mutant of save_history: a successful write leaves out the newest item.
save_history_DropsNewest(history, outcome) ==
    CASE outcome = "ok" ->
            PickledFile(IF history = <<>> THEN <<>> ELSE SubSeq(history, 2, Len(history)))
      [] outcome = "open_failed" -> store
      [] OTHER -> CorruptFile

save_history(history, outcome) ==
    CASE outcome = "ok" -> PickledFile(history)
      [] outcome = "open_failed" -> store
      [] OTHER -> CorruptFile

\* Mutant of load_history: an unreadable file yields an item an earlier run
\* left instead of nothing.
load_history_KeepsPartial(file) ==
    IF file.kind = "pickled" THEN file.items
    ELSE IF file.kind = "corrupt"
    THEN <<[title |-> [name |-> 0, len |-> 5], date |-> <<0, 0>>, format |-> "mp3"]>>
    ELSE <<>>

\* load_history: a missing or unreadable store leaves the log as constructed.
load_history(file) == IF file.kind = "pickled" THEN file.items ELSE <<>>

\* self.search_results_frame: the label it shows ("" for none, "No results
\* found" or the header "Found") and the result items below it.
Results(label, items) == [label |-> label, items |-> items]
NoResults == Results("", <<>>)

\* The status bar: a fixed message, or the line show_video_info_fast builds
\* from a probe's info.
Status(msg) == [msg |-> msg, info |-> None]
InfoStatus(info) ==
    [msg |-> IF info.is_playlist THEN "Playlist" ELSE "Video", info |-> Some(info)]

\* self.show_notification(msg): the status text and the after(3000) reset.
show_notification(msg) ==
    /\ pending_resets < MaxPendingResets
    /\ status_label' = Status(msg)
    /\ pending_resets' = pending_resets + 1

\* The item add_to_history builds from the extractor's info.
HistoryItem(info) ==
    [title |-> Slice(info.title, HistoryTitleLen),
     date |-> FormatHM(now),
     format |-> format_var]

\* Mutant of Inserted: the item over the cap is never popped.
Inserted_NoPop(history, item) == <<item>> \o history

\* self.download_history.insert(0, item); pop() when longer than the cap.
Inserted(history, item) ==
    LET longer == <<item>> \o history
    IN  IF Len(longer) > HistoryCap
        THEN SubSeq(longer, 1, Len(longer) - 1)
        ELSE longer

\* add_to_history(info), run on the UI thread; outcomes are the ways the
\* write of the history file may end.
add_to_history(info, outcomes) ==
    \E outcome \in outcomes :
        /\ download_history' = Inserted(download_history, HistoryItem(info))
        /\ store' = save_history(download_history', outcome)
        /\ n_appends' = n_appends + 1
        /\ appended' = (IF download_history = <<>> THEN <<>> ELSE appended)
                         \o <<HistoryItem(info)>>
        /\ trace' = [Eff("add_to_history", "ui") EXCEPT
                        !.hist = TRUE, !.save = outcome, !.widget = TRUE]

\* Mutant of clear_history: the empty log is not told apart, the prompt is
\* shown and the file written whatever the log holds.
clear_history_AlwaysAsk ==
    \E answer \in {"yes", "no"} :
        IF answer = "yes"
        THEN \E outcome \in SaveOutcomes :
                /\ download_history' = <<>>
                /\ store' = save_history(<<>>, outcome)
                /\ show_notification("History cleared")
                /\ UNCHANGED <<n_appends, appended>>
                /\ trace' = [Eff("clear_history", "ui") EXCEPT
                                !.prompt = "yes", !.hist = TRUE,
                                !.save = outcome, !.widget = TRUE]
        ELSE /\ UNCHANGED <<histVars, status_label, pending_resets>>
             /\ trace' = [Eff("clear_history", "ui") EXCEPT !.prompt = "no"]

\* Mutant of clear_history: the log is cleared and written whatever the user
\* answers.
clear_history_IgnoreAnswer ==
    IF download_history = <<>>
    THEN /\ show_notification("History already empty")
         /\ UNCHANGED histVars
         /\ trace' = [Eff("clear_history", "ui") EXCEPT !.widget = TRUE]
    ELSE \E answer \in {"yes", "no"}, outcome \in SaveOutcomes :
            /\ download_history' = <<>>
            /\ store' = save_history(<<>>, outcome)
            /\ show_notification("History cleared")
            /\ UNCHANGED <<n_appends, appended>>
            /\ trace' = [Eff("clear_history", "ui") EXCEPT
                            !.prompt = answer, !.hist = TRUE,
                            !.save = outcome, !.widget = TRUE]

\* clear_history, bound to both "Clear" buttons.
clear_history ==
    IF download_history = <<>>
    THEN /\ show_notification("History already empty")
         /\ UNCHANGED histVars
         /\ trace' = [Eff("clear_history", "ui") EXCEPT !.widget = TRUE]
    ELSE \E answer \in {"yes", "no"} :
            IF answer = "yes"
            THEN \E outcome \in SaveOutcomes :
                    /\ download_history' = <<>>
                    /\ store' = save_history(<<>>, outcome)
                    /\ show_notification("History cleared")
                    /\ UNCHANGED <<n_appends, appended>>
                    /\ trace' = [Eff("clear_history", "ui") EXCEPT
                                    !.prompt = "yes", !.hist = TRUE,
                                    !.save = outcome, !.widget = TRUE]
            ELSE /\ UNCHANGED <<histVars, status_label, pending_resets>>
                 /\ trace' = [Eff("clear_history", "ui") EXCEPT !.prompt = "no"]

\* after(3000, lambda: self.status_label.configure(text="Ready")), armed by
\* show_notification.
status_reset ==
    /\ pending_resets > 0
    /\ pending_resets' = pending_resets - 1
    /\ status_label' = Status("Ready")
    /\ trace' = [Eff("status_reset", "ui") EXCEPT !.widget = TRUE]

\* ------------------------------------------------------------ URL entry

\* The condition of update_download_button_state.
LooksLikeUrl(url) ==
    /\ url # EmptyUrl
    /\ \/ Contains(url, "youtube.com")
       \/ Contains(url, "youtu.be")
       \/ StartsWithHttp(url)

\* update_download_button_state(url): the state it gives self.download_btn.
update_download_button_state(url) ==
    IF LooksLikeUrl(url) THEN "normal" ELSE "disabled"

\* A key press in the entry changes its text (the Entry widget's own binding).
TypeUrl(u) ==
    /\ u # url_entry
    /\ url_entry' = u
    /\ trace' = Eff("type_url", "ui")

\* <KeyRelease> in the entry: on_url_change.
on_url_change ==
    /\ download_btn' = update_download_button_state(strip(url_entry))
    /\ trace' = [Eff("on_url_change", "ui") EXCEPT !.widget = TRUE]

\* -------------------------------------------------------------- the probe

\* What ydl.extract_info(url, download=False) returns for a URL when it does
\* not raise: a collection for a playlist URL, a single video otherwise.  A
\* video's title is longer than the 60 characters kept.
VideoInfo(url) ==
    [title |-> Title(url, 70), channel |-> "ch", duration |-> 65, entries |-> None]
PlaylistInfo(url) ==
    [title |-> Title(url, 10), channel |-> "ch", duration |-> 0, entries |-> Some(3)]
ExtractInfos(url) ==
    IF Contains(url, "list") THEN {PlaylistInfo(url)} ELSE {VideoInfo(url)}

\* fast_info, as _analyze_fast_thread builds it from the extractor's info.
FastInfo(info) ==
    [title |-> Slice(info.title, InfoTitleLen),
     channel |-> info.channel,
     duration |-> info.duration,
     is_playlist |-> info.entries # None,
     video_count |-> IF info.entries # None THEN info.entries[1] ELSE 1]

\* show_video_info_fast(info)
show_video_info_fast(info) ==
    /\ status_label' = InfoStatus(info)
    /\ current_video_info' = Some(info)

\* Mutant of Fresh: an entry exactly 300 seconds old still counts as fresh.
Fresh_Inclusive(cache_time, t) == t - cache_time <= FreshnessWindow

\* time.time() - cache_time < 300
Fresh(cache_time, t) == t - cache_time < FreshnessWindow

\* The worker threads that have not ended.
Running(workers) == {i \in DOMAIN workers : workers[i].pc # "done"}

\* Mutant of analyze_url_fast: the is_analyzing guard is missing.
analyze_url_fast_NoGuard(url, op) ==
    LET key == CacheKeyOf(url)
        entry == video_info_cache[key]
        eff == [Eff(op, "ui") EXCEPT !.url = Some(url)]
    IN  IF url = EmptyUrl
        THEN /\ UNCHANGED <<cacheVars, status_label, probes>>
             /\ trace' = eff
        ELSE IF entry # None /\ Fresh(entry[1].time, now)
        THEN /\ show_video_info_fast(entry[1].info)
             /\ UNCHANGED <<is_analyzing, video_info_cache, probes>>
             /\ trace' = [eff EXCEPT !.lookup = "hit", !.widget = TRUE,
                                     !.age = now - entry[1].time]
        ELSE /\ Len(probes) < MaxProbes
             /\ is_analyzing' = TRUE
             /\ status_label' = Status("Analyzing")
             /\ probes' = Append(probes, [pc |-> "extract", url |-> url, key |-> key,
                                          info |-> None])
             /\ UNCHANGED <<video_info_cache, current_video_info>>
             /\ trace' = [eff EXCEPT
                            !.spawn = "probe", !.widget = TRUE,
                            !.lookup = IF entry = None THEN "absent" ELSE "expired",
                            !.age = IF entry = None THEN 0 ELSE now - entry[1].time]

\* analyze_url_fast(url), called by the handler op.
analyze_url_fast(url, op) ==
    LET key == CacheKeyOf(url)
        entry == video_info_cache[key]
        eff == [Eff(op, "ui") EXCEPT !.url = Some(url)]
    IN  IF url = EmptyUrl \/ is_analyzing
        THEN /\ UNCHANGED <<cacheVars, status_label, probes>>
             /\ trace' = eff
        ELSE IF entry # None /\ Fresh(entry[1].time, now)
        THEN /\ show_video_info_fast(entry[1].info)
             /\ UNCHANGED <<is_analyzing, video_info_cache, probes>>
             /\ trace' = [eff EXCEPT !.lookup = "hit", !.widget = TRUE,
                                     !.age = now - entry[1].time]
        ELSE /\ Len(probes) < MaxProbes
             /\ is_analyzing' = TRUE
             /\ status_label' = Status("Analyzing")
             /\ probes' = Append(probes, [pc |-> "extract", url |-> url, key |-> key,
                                          info |-> None])
             /\ UNCHANGED <<video_info_cache, current_video_info>>
             /\ trace' = [eff EXCEPT
                            !.spawn = "probe", !.widget = TRUE,
                            !.lookup = IF entry = None THEN "absent" ELSE "expired",
                            !.age = IF entry = None THEN 0 ELSE now - entry[1].time]

\* <Return> in the entry: analyze_url_fast(self.url_entry.get()).
press_return == analyze_url_fast(url_entry, "press_return")

\* paste_url with the clipboard holding clip; pyperclip.paste() may raise.
paste_url(clip, raises) ==
    IF raises
    THEN /\ show_notification("Could not paste")
         /\ UNCHANGED <<url_entry, download_btn, cacheVars, probes>>
         /\ trace' = [Eff("paste_url", "ui") EXCEPT !.widget = TRUE]
    ELSE IF clip = EmptyUrl
    THEN /\ UNCHANGED <<url_entry, download_btn, cacheVars, probes, status_label,
                        pending_resets>>
         /\ trace' = Eff("paste_url", "ui")
    ELSE /\ url_entry' = clip
         /\ download_btn' = update_download_button_state(clip)
         /\ analyze_url_fast(clip, "paste_url")
         /\ UNCHANGED pending_resets

\* after(0, fn, arg): the callback joins the queue of the UI thread.
Callback(fn, task, arg) == [fn |-> fn, task |-> task, arg |-> arg]
After0(cb) == uiQueue' = Append(uiQueue, cb)

\* Mutant of probe_extract: a failed fetch drops the cache entry of its key.
probe_extract_DropsEntry(i) ==
    /\ i \in DOMAIN probes
    /\ probes[i].pc = "extract"
    /\ \/ \E info \in ExtractInfos(probes[i].url) :
            /\ video_info_cache' =
                  [video_info_cache EXCEPT
                      ![probes[i].key] = Some([time |-> now, info |-> FastInfo(info)])]
            /\ probes' = [probes EXCEPT ![i].pc = "cached",
                                        ![i].info = Some(FastInfo(info))]
            /\ UNCHANGED uiQueue
            /\ trace' = [Eff("probe_extract", "probe") EXCEPT
                            !.extract = TRUE, !.cache = TRUE]
       \/ /\ Len(uiQueue) < MaxQueue
          /\ After0(Callback("analysis_failed", 0, None))
          /\ probes' = [probes EXCEPT ![i].pc = "finally"]
          /\ video_info_cache' = [video_info_cache EXCEPT ![probes[i].key] = None]
          /\ trace' = [Eff("probe_extract", "probe") EXCEPT !.extract = TRUE]
    /\ UNCHANGED <<is_analyzing, current_video_info>>

\* _analyze_fast_thread, first step: extract_info returns and the result is
\* cached (line 872, on the worker thread), or extract_info raises and the
\* failure message is queued.
probe_extract(i) ==
    /\ i \in DOMAIN probes
    /\ probes[i].pc = "extract"
    /\ \/ \E info \in ExtractInfos(probes[i].url) :
            /\ video_info_cache' =
                  [video_info_cache EXCEPT
                      ![probes[i].key] = Some([time |-> now, info |-> FastInfo(info)])]
            /\ probes' = [probes EXCEPT ![i].pc = "cached",
                                        ![i].info = Some(FastInfo(info))]
            /\ UNCHANGED uiQueue
            /\ trace' = [Eff("probe_extract", "probe") EXCEPT
                            !.extract = TRUE, !.cache = TRUE]
       \/ /\ Len(uiQueue) < MaxQueue
          /\ After0(Callback("analysis_failed", 0, None))
          /\ probes' = [probes EXCEPT ![i].pc = "finally"]
          /\ UNCHANGED video_info_cache
          /\ trace' = [Eff("probe_extract", "probe") EXCEPT !.extract = TRUE]
    /\ UNCHANGED <<is_analyzing, current_video_info>>

\* self.after(0, self.show_video_info_fast, fast_info)
probe_schedule(i) ==
    /\ i \in DOMAIN probes
    /\ probes[i].pc = "cached"
    /\ Len(uiQueue) < MaxQueue
    /\ After0(Callback("show_video_info_fast", 0, probes[i].info))
    /\ probes' = [probes EXCEPT ![i].pc = "finally"]
    /\ UNCHANGED cacheVars
    /\ trace' = Eff("probe_schedule", "probe")

\* A thread that has ended holds nothing.
Ended == [pc |-> "done"]

\* Mutant of probe_finally: the thread ends without clearing is_analyzing.
probe_finally_KeepsGuard(i) ==
    /\ i \in DOMAIN probes
    /\ probes[i].pc = "finally"
    /\ probes' = [probes EXCEPT ![i] = Ended]
    /\ UNCHANGED <<cacheVars, uiQueue>>
    /\ trace' = Eff("probe_finally", "probe")

\* finally: self.is_analyzing = False, and the thread ends.
probe_finally(i) ==
    /\ i \in DOMAIN probes
    /\ probes[i].pc = "finally"
    /\ is_analyzing' = FALSE
    /\ probes' = [probes EXCEPT ![i] = Ended]
    /\ UNCHANGED <<video_info_cache, current_video_info, uiQueue>>
    /\ trace' = Eff("probe_finally", "probe")

\* The UI thread runs a probe's callback.
run_probe_callback(cb) ==
    /\ cb.fn \in {"show_video_info_fast", "analysis_failed"}
    /\ IF cb.fn = "show_video_info_fast"
       THEN show_video_info_fast(cb.arg[1])
       ELSE /\ status_label' = Status("Analysis failed")
            /\ UNCHANGED current_video_info
    /\ trace' = [Eff(cb.fn, "ui") EXCEPT !.widget = TRUE]

\* Mutant of NextCallback: the newest callback is run first.
NextCallback_Newest(queue) == Len(queue)

\* The Tk event loop runs the after(0) callbacks oldest first.
NextCallback(queue) == 1

Without(queue, n) == SubSeq(queue, 1, n - 1) \o SubSeq(queue, n + 1, Len(queue))

\* The clock advances.
TickSteps == {1, FreshnessWindow - 1}
TicksOf(t) == (t \div (FreshnessWindow - 1)) + (t % (FreshnessWindow - 1))
Tick(d) ==
    /\ TicksOf(now) < MaxTicks
    /\ now' = now + d
    /\ trace' = Eff("tick", "clock")

\* ------------------------------------------------------------- FFmpeg

\* check_ffmpeg, armed by __init__ with after(1000, ...): it runs
\* FFmpegManager.check_ffmpeg and updates the badge and the install button.
check_ffmpeg ==
    /\ "check_ffmpeg" \in timers
    /\ timers' = timers \ {"check_ffmpeg"}
    /\ ffmpeg_available' = ffmpeg_installed
    /\ install_btn' = IF ffmpeg_installed THEN "disabled" ELSE install_btn
    /\ trace' = [Eff("check_ffmpeg", "ui") EXCEPT !.widget = TRUE,
                                                  !.blocking = "subprocess"]

\* install_ffmpeg: disables the install button and starts the worker.
install_ffmpeg ==
    /\ Len(installs) < MaxInstalls
    /\ install_btn' = "disabled"
    /\ installs' = Append(installs, [pc |-> "begin"])

\* update_status(msg), the callback install_ffmpeg hands to the worker:
\* it configures self.ffmpeg_status_label and self.status_label.
update_status(msg) == status_label' = Status(msg)

\* FFmpegManager.auto_install on the worker thread, first step:
\* parent_callback("Downloading FFmpeg...").
install_begin(i) ==
    /\ installs[i].pc = "begin"
    /\ update_status("Downloading FFmpeg")
    /\ installs' = [installs EXCEPT ![i].pc = "download"]
    /\ UNCHANGED <<ffmpeg_available, ffmpeg_installed, uiQueue, timers>>
    /\ trace' = [Eff("auto_install", "install") EXCEPT !.widget = TRUE]

\* urlretrieve ends: parent_callback("Extracting FFmpeg..."), or it raises
\* and the except branch calls parent_callback("Installation failed").
install_download(i, ok) ==
    /\ installs[i].pc = "download"
    /\ update_status(IF ok THEN "Extracting FFmpeg" ELSE "Installation failed")
    /\ installs' = [installs EXCEPT ![i].pc = IF ok THEN "extract" ELSE "fail1"]
    /\ UNCHANGED <<ffmpeg_available, ffmpeg_installed, uiQueue, timers>>
    /\ trace' = [Eff("auto_install", "install") EXCEPT !.widget = TRUE,
                                                     !.blocking = "urlretrieve"]

\* The archive is unpacked and copied: parent_callback("FFmpeg installed
\* successfully!"), or a step raises and the except branch reports it.
install_extract(i, ok) ==
    /\ installs[i].pc = "extract"
    /\ update_status(IF ok THEN "FFmpeg installed" ELSE "Installation failed")
    /\ ffmpeg_installed' = (ffmpeg_installed \/ ok)
    /\ installs' = [installs EXCEPT ![i].pc = IF ok THEN "ok1" ELSE "fail1"]
    /\ UNCHANGED <<ffmpeg_available, uiQueue, timers>>
    /\ trace' = [Eff("auto_install", "install") EXCEPT !.widget = TRUE]

\* _install_ffmpeg_thread after auto_install returned: the statements of
\* the success branch and of the failure branch, one per step.
InstallSteps ==
    [ok1 |-> [cb |-> "ffmpeg_status_installed", to |-> "ok2"],
     ok2 |-> [cb |-> "ffmpeg_badge_ready", to |-> "ok3"],
     ok3 |-> [cb |-> "install_btn_installed", to |-> "ok4"],
     ok5 |-> [cb |-> "install_notification", to |-> "ok6"],
     fail1 |-> [cb |-> "ffmpeg_status_failed", to |-> "fail2"],
     fail2 |-> [cb |-> "install_btn_retry", to |-> "done"]]

\* self.after(0, lambda: ...)
install_report(i) ==
    /\ installs[i].pc \in DOMAIN InstallSteps
    /\ Len(uiQueue) < MaxQueue
    /\ After0(Callback(InstallSteps[installs[i].pc].cb, 0, None))
    /\ installs' = [installs EXCEPT ![i] =
                        IF InstallSteps[installs[i].pc].to = "done"
                        THEN Ended
                        ELSE [pc |-> InstallSteps[installs[i].pc].to]]
    /\ UNCHANGED <<ffmpeg_available, ffmpeg_installed, status_label, timers>>
    /\ trace' = Eff("install_report", "install")

\* self.ffmpeg_available = True, on the worker thread
install_available(i) ==
    /\ installs[i].pc = "ok4"
    /\ ffmpeg_available' = TRUE
    /\ installs' = [installs EXCEPT ![i].pc = "ok5"]
    /\ UNCHANGED <<ffmpeg_installed, status_label, uiQueue, timers>>
    /\ trace' = Eff("install_available", "install")

\* self.after(2000, self.restart_app), and the thread ends.
install_arm_restart(i) ==
    /\ installs[i].pc = "ok6"
    /\ timers' = timers \cup {"restart_app"}
    /\ installs' = [installs EXCEPT ![i] = Ended]
    /\ UNCHANGED <<ffmpeg_available, ffmpeg_installed, status_label, uiQueue>>
    /\ trace' = Eff("install_arm_restart", "install")

InstallCallbacks ==
    {"ffmpeg_status_installed", "ffmpeg_badge_ready", "install_btn_installed",
     "install_notification", "ffmpeg_status_failed", "install_btn_retry"}

\* The UI thread runs an installation worker's callback.
run_install_callback(cb) ==
    /\ cb.fn \in InstallCallbacks
    /\ CASE cb.fn = "install_notification" ->
                /\ show_notification("FFmpeg installed! Restarting")
                /\ UNCHANGED install_btn
         [] cb.fn = "install_btn_retry" ->
                /\ install_btn' = "normal"
                /\ UNCHANGED <<status_label, pending_resets>>
         [] OTHER ->
                UNCHANGED <<install_btn, status_label, pending_resets>>
    /\ trace' = [Eff(cb.fn, "ui") EXCEPT !.widget = TRUE]

\* ------------------------------------------------------------ the download

\* An exact fraction, as Python's float division gives it.
Frac(num, den) == [num |-> num, den |-> den]

\* set_format_with_button(format_type, color) and set_format(format_type)
set_format(f) ==
    /\ format_var' = f
    /\ trace' = [Eff("set_format", "ui") EXCEPT !.widget = TRUE]

\* reset_download_button: the state it gives self.download_btn.
reset_download_button ==
    IF strip(url_entry) # EmptyUrl THEN "normal" ELSE "disabled"

\* Mutant of start_download_fast: the FFmpeg check for mp3 is missing.
start_download_fast_NoFfmpegCheck(op, answers, limit) ==
    LET url == strip(url_entry)
        eff == Eff(op, "ui")
    IN  IF url = EmptyUrl
        THEN /\ show_notification("Enter URL first")
             /\ UNCHANGED <<download_btn, progress, downloads, installs,
                            install_btn, ghostVars>>
             /\ trace' = [eff EXCEPT !.widget = TRUE]
        ELSE /\ Len(downloads) < limit
             /\ download_btn' = "disabled"
             /\ progress' = [label |-> "Starting", bar |-> Some(Frac(0, 1))]
             /\ downloads' = Append(downloads,
                    [pc |-> "start", url |-> url, format |-> None, hooks |-> 0,
                     ydl_opts |-> None,
                     asked |-> Some([format |-> format_var, quality |-> quality_var])])
             /\ scheduled' = Append(scheduled, <<>>)
             /\ handled' = Append(handled, <<>>)
             /\ UNCHANGED <<installs, install_btn, status_label, pending_resets>>
             /\ trace' = [eff EXCEPT !.widget = TRUE, !.spawn = "download"]

\* start_download_fast, called by the handler op; answers are the replies the
\* user may give to the "FFmpeg Required" prompt, limit the number of
\* download workers the specification lets start.
start_download_fast(op, answers, limit) ==
    LET url == strip(url_entry)
        eff == Eff(op, "ui")
    IN  IF url = EmptyUrl
        THEN /\ show_notification("Enter URL first")
             /\ UNCHANGED <<download_btn, progress, downloads, installs,
                            install_btn, ghostVars>>
             /\ trace' = [eff EXCEPT !.widget = TRUE]
        ELSE IF format_var = "mp3" /\ ~ffmpeg_available
        THEN \E answer \in answers :
                IF answer = "no"
                THEN /\ UNCHANGED <<download_btn, progress, downloads, installs,
                                    install_btn, ghostVars, status_label,
                                    pending_resets>>
                     /\ trace' = [eff EXCEPT !.prompt = "no"]
                ELSE /\ install_ffmpeg
                     /\ UNCHANGED <<download_btn, progress, downloads, ghostVars,
                                    status_label, pending_resets>>
                     /\ trace' = [eff EXCEPT !.prompt = "yes", !.widget = TRUE,
                                             !.spawn = "install"]
        ELSE /\ Len(downloads) < limit
             /\ download_btn' = "disabled"
             /\ progress' = [label |-> "Starting", bar |-> Some(Frac(0, 1))]
             /\ downloads' = Append(downloads,
                    [pc |-> "start", url |-> url, format |-> None, hooks |-> 0,
                     ydl_opts |-> None,
                     asked |-> Some([format |-> format_var, quality |-> quality_var])])
             /\ scheduled' = Append(scheduled, <<>>)
             /\ handled' = Append(handled, <<>>)
             /\ UNCHANGED <<installs, install_btn, status_label, pending_resets>>
             /\ trace' = [eff EXCEPT !.widget = TRUE, !.spawn = "download"]

\* A value of the dictionary yt-dlp hands to the progress hook: a number, or
\* Python's None.  A key of the dictionary is absent (None below) or holds
\* such a value.
Num(n) == [none |-> FALSE, n |-> n]
PyNone == [none |-> TRUE, n |-> 0]

\* The dictionaries yt-dlp hands to the progress hook: the total known, only
\* an estimate known, no key for either, the key of the total present with
\* the value None (a download of unknown length), an estimate the download
\* has already passed, and a total of zero bytes.
HookHalf ==
    [status |-> "downloading", downloaded_bytes |-> 5,
     total_bytes |-> Some(Num(10)), total_bytes_estimate |-> None]
HookEstimate ==
    [status |-> "downloading", downloaded_bytes |-> 5,
     total_bytes |-> None, total_bytes_estimate |-> Some(Num(20))]
HookNoTotal ==
    [status |-> "downloading", downloaded_bytes |-> 5,
     total_bytes |-> None, total_bytes_estimate |-> None]
HookUnknownTotal ==
    [status |-> "downloading", downloaded_bytes |-> 5,
     total_bytes |-> Some(PyNone), total_bytes_estimate |-> None]
HookPastEstimate ==
    [status |-> "downloading", downloaded_bytes |-> 25,
     total_bytes |-> None, total_bytes_estimate |-> Some(Num(20))]
HookZeroTotal ==
    [status |-> "downloading", downloaded_bytes |-> 0,
     total_bytes |-> Some(Num(0)), total_bytes_estimate |-> None]
HookInputs ==
    {HookHalf, HookEstimate, HookNoTotal, HookUnknownTotal, HookPastEstimate,
     HookZeroTotal}

\* d['downloaded_bytes'] / total: a fraction, or an error raised for a
\* total of None (TypeError) or of zero (ZeroDivisionError).
Divided(num, total) ==
    IF total.none \/ total.n = 0
    THEN [raised |-> TRUE, update |-> None]
    ELSE [raised |-> FALSE, update |-> Some(Frac(num, total.n))]

\* progress_hook_fast(d): whether it raises, and the fraction it schedules
\* for update_progress_fast (None when it schedules nothing).
progress_hook_fast(d) ==
    IF d.status = "downloading"
    THEN IF d.total_bytes # None
         THEN Divided(d.downloaded_bytes, d.total_bytes[1])
         ELSE IF d.total_bytes_estimate # None
         THEN Divided(d.downloaded_bytes, d.total_bytes_estimate[1])
         ELSE [raised |-> FALSE, update |-> None]
    ELSE [raised |-> FALSE, update |-> None]

\* What ydl.extract_info(url, download=True) returns when it does not raise.
DownloadInfo(url) == [title |-> Title(url, 45)]

\* The texts of the errors extract_info raises: words, and a length in
\* characters.
FfmpegError == [words |-> <<"ERROR", "FFmpeg", "not", "found">>, len |-> 30]
NetworkError == [words |-> <<"ERROR", "unable", "to", "download">>, len |-> 80]
DownloadErrors == {FfmpegError, NetworkError}

\* The TypeError of a division by None: "unsupported operand type(s) for /:
\* 'int' and 'NoneType'".
HookTypeError == [words |-> <<"unsupported", "operand", "type(s)">>, len |-> 55]

\* str.lower() of one word
Lower(w) ==
    CASE w = "FFmpeg" -> "ffmpeg"
      [] w = "Postprocessing" -> "postprocessing"
      [] w = "ERROR" -> "error"
      [] OTHER -> w

\* Mutant of IsFfmpegError: the text is not lowered before the search.
IsFfmpegError_CaseSensitive(e) ==
    \E j \in 1..Len(e.words) : e.words[j] \in {"ffmpeg", "postprocessing"}

\* "ffmpeg" in error_msg.lower() or "postprocessing" in error_msg.lower()
IsFfmpegError(e) ==
    \E j \in 1..Len(e.words) : Lower(e.words[j]) \in {"ffmpeg", "postprocessing"}

\* self.quality_options, and the quality menu's command on_quality_change.
quality_options ==
    <<"144p", "240p", "360p", "480p", "720p", "1080p", "1440p (2K)", "2160p (4K)">>

set_quality(q) ==
    /\ quality_var' = q
    /\ trace' = [Eff("on_quality_change", "ui") EXCEPT !.widget = TRUE]

\* A yt-dlp format expression: 'best', 'worst' or 'bestaudio/best', with an
\* optional [height<=h] filter.
FormatExpr(pick, height) == [pick |-> pick, height |-> height]

\* Mutant of quality_map: the lowest tier selects the best stream like the
\* other tiers.
quality_map_AllBest ==
    [q \in {"144p"} |-> FormatExpr("best", Some(144))] @@
    [q \in {"240p"} |-> FormatExpr("best", Some(240))] @@
    [q \in {"360p"} |-> FormatExpr("best", Some(360))] @@
    [q \in {"480p"} |-> FormatExpr("best", Some(480))] @@
    [q \in {"720p"} |-> FormatExpr("best", Some(720))] @@
    [q \in {"1080p"} |-> FormatExpr("best", Some(1080))] @@
    [q \in {"1440p (2K)"} |-> FormatExpr("best", Some(1440))] @@
    [q \in {"2160p (4K)"} |-> FormatExpr("best", Some(2160))]

\* quality_map in _download_fast_thread
quality_map ==
    [q \in {"144p"} |-> FormatExpr("worst", Some(144))] @@
    [q \in {"240p"} |-> FormatExpr("best", Some(240))] @@
    [q \in {"360p"} |-> FormatExpr("best", Some(360))] @@
    [q \in {"480p"} |-> FormatExpr("best", Some(480))] @@
    [q \in {"720p"} |-> FormatExpr("best", Some(720))] @@
    [q \in {"1080p"} |-> FormatExpr("best", Some(1080))] @@
    [q \in {"1440p (2K)"} |-> FormatExpr("best", Some(1440))] @@
    [q \in {"2160p (4K)"} |-> FormatExpr("best", Some(2160))]

\* ydl_opts as _download_fast_thread builds it from the format and the
\* quality it reads: the format expression, the audio postprocessor and the
\* container to merge into.
ydl_opts(format_type, quality) ==
    IF format_type = "mp3"
    THEN [format |-> FormatExpr("bestaudio/best", None),
          postprocessor |-> Some("mp3"),
          merge_output_format |-> None]
    ELSE [format |-> IF quality \in DOMAIN quality_map
                     THEN quality_map[quality]
                     ELSE FormatExpr("best", None),
          postprocessor |-> None,
          merge_output_format |-> IF format_type # "mp4" THEN Some(format_type) ELSE None]

\* A download worker queues a callback: after(0, ...), recorded per worker.
DownloadAfter0(i, cb) ==
    /\ Len(uiQueue) < MaxQueue
    /\ After0(cb)
    /\ scheduled' = [scheduled EXCEPT ![i] = Append(@, cb)]

\* _download_fast_thread, first step: the thread reads self.format_var and
\* the other settings, builds ydl_opts and calls extract_info.
download_start(i) ==
    /\ downloads[i].pc = "start"
    /\ downloads' = [downloads EXCEPT
                        ![i].pc = "extract",
                        ![i].format = Some(format_var),
                        ![i].ydl_opts = Some(ydl_opts(format_var, quality_var)),
                        ![i].asked = None]
    /\ UNCHANGED <<uiQueue, scheduled>>
    /\ trace' = [Eff("download_start", "download") EXCEPT !.extract = TRUE]

\* The except branch of _download_fast_thread for the error e: it queues
\* the FFmpeg dialog, or the notification with the first 50 characters of
\* the error text.
download_except(i, e) ==
    /\ IF IsFfmpegError(e)
       THEN DownloadAfter0(i, Callback("show_ffmpeg_error", i, None))
       ELSE DownloadAfter0(i, Callback("error_notification", i,
                                       Some([e EXCEPT !.len = IF @ < 50 THEN @ ELSE 50])))
    /\ downloads' = [downloads EXCEPT ![i].pc = "failed"]

\* extract_info calls progress_hook_fast(d) on the worker thread; an error
\* the hook raises leaves extract_info and reaches the except branch.
download_progress(i, d) ==
    /\ downloads[i].pc = "extract"
    /\ downloads[i].hooks < MaxProgress
    /\ IF progress_hook_fast(d).raised
       THEN download_except(i, HookTypeError)
       ELSE /\ downloads' = [downloads EXCEPT ![i].hooks = @ + 1]
            /\ IF progress_hook_fast(d).update = None
               THEN UNCHANGED <<uiQueue, scheduled>>
               ELSE DownloadAfter0(i, Callback("update_progress_fast", i,
                                               progress_hook_fast(d).update))
    /\ trace' = Eff("progress_hook_fast", "download")

\* Mutant of download_return: the history append is not scheduled.
download_return_NoHistory(i) ==
    /\ downloads[i].pc = "extract"
    /\ downloads' = [downloads EXCEPT ![i].pc = "returned"]
    /\ UNCHANGED <<uiQueue, scheduled>>
    /\ trace' = Eff("download_return", "download")

\* extract_info returns: self.after(0, self.add_to_history, info)
download_return(i) ==
    /\ downloads[i].pc = "extract"
    /\ DownloadAfter0(i, Callback("add_to_history", i,
                                  Some(DownloadInfo(downloads[i].url))))
    /\ downloads' = [downloads EXCEPT ![i].pc = "returned"]
    /\ trace' = Eff("download_return", "download")

\* extract_info raises e: the except branch queues the FFmpeg dialog or the
\* notification with the first 50 characters of the error.
download_raise(i, e) ==
    /\ downloads[i].pc = "extract"
    /\ download_except(i, e)
    /\ trace' = Eff("download_raise", "download")

\* Mutant of download_finish: after an error the thread ends without queueing
\* reset_download_button.
download_finish_NoReset(i) ==
    /\ downloads[i].pc \in {"returned", "failed"}
    /\ IF downloads[i].pc = "returned"
       THEN DownloadAfter0(i, Callback("download_complete_fast", i, None))
       ELSE UNCHANGED <<uiQueue, scheduled>>
    /\ downloads' = [downloads EXCEPT ![i] = Ended]
    /\ trace' = Eff("download_finish", "download")

\* The last after(0, ...) of the thread: download_complete_fast after a
\* success, reset_download_button after a failure.
download_finish(i) ==
    /\ downloads[i].pc \in {"returned", "failed"}
    /\ DownloadAfter0(i, Callback(IF downloads[i].pc = "returned"
                                  THEN "download_complete_fast"
                                  ELSE "reset_download_button", i, None))
    /\ downloads' = [downloads EXCEPT ![i] = Ended]
    /\ trace' = Eff("download_finish", "download")

DownloadCallbacks ==
    {"update_progress_fast", "add_to_history", "download_complete_fast",
     "show_ffmpeg_error", "error_notification", "reset_download_button"}

\* The UI thread runs a download worker's callback; outcomes are the ways a
\* write of the history file may end.
run_download_callback(cb, outcomes) ==
    /\ cb.fn \in DownloadCallbacks
    /\ handled' = [handled EXCEPT ![cb.task] = Append(@, cb)]
    /\ UNCHANGED scheduled
    /\ CASE cb.fn = "update_progress_fast" ->
                /\ progress' = [label |-> "percent", bar |-> cb.arg]
                /\ UNCHANGED <<download_btn, dialogs, status_label,
                               pending_resets, histVars>>
                /\ trace' = [Eff(cb.fn, "ui") EXCEPT !.widget = TRUE]
         [] cb.fn = "add_to_history" ->
                /\ add_to_history(cb.arg[1], outcomes)
                /\ UNCHANGED <<download_btn, dialogs, status_label,
                               pending_resets, progress>>
         [] cb.fn = "download_complete_fast" ->
                /\ download_btn' = reset_download_button
                /\ progress' = [progress EXCEPT !.label = "Download Complete"]
                /\ show_notification("Download complete")
                /\ UNCHANGED <<dialogs, histVars>>
                /\ trace' = [Eff(cb.fn, "ui") EXCEPT !.widget = TRUE]
         [] cb.fn = "show_ffmpeg_error" ->
                /\ dialogs' = dialogs + 1
                /\ UNCHANGED <<download_btn, progress, status_label,
                               pending_resets, histVars>>
                /\ trace' = [Eff(cb.fn, "ui") EXCEPT !.widget = TRUE]
         [] cb.fn = "error_notification" ->
                /\ pending_resets < MaxPendingResets
                /\ status_label' = [msg |-> "Error", info |-> cb.arg]
                /\ pending_resets' = pending_resets + 1
                /\ UNCHANGED <<download_btn, progress, dialogs, histVars>>
                /\ trace' = [Eff(cb.fn, "ui") EXCEPT !.widget = TRUE]
         [] OTHER ->
                /\ download_btn' = reset_download_button
                /\ UNCHANGED <<progress, dialogs, status_label, pending_resets,
                               histVars>>
                /\ trace' = [Eff(cb.fn, "ui") EXCEPT !.widget = TRUE]

\* ----------------------------------------------------------------- search

\* The texts of the search field.
EmptyQuery == <<>>
CatQuery == <<"cats">>
Queries == {EmptyQuery, CatQuery}

\* What ydl.extract_info('ytsearch15:<query>') returns when it does not
\* raise: no entry, or one video.
SearchEntry(query) == [title |-> Title(query, 70), id |-> "a"]
SearchInfos(query) == {<<>>, <<SearchEntry(query)>>}

\* The result item _search_fast_thread builds from an entry.
SearchResult(entry) ==
    [title |-> Slice(entry.title, SearchTitleLen),
     url |-> <<"http", "youtube.com", entry.id>>]

\* search_fast with the text query in the search field.
search_fast(query) ==
    IF strip(query) = EmptyQuery
    THEN /\ UNCHANGED <<status_label, searches>>
         /\ trace' = Eff("search_fast", "ui")
    ELSE /\ Len(searches) < MaxSearches
         /\ status_label' = Status("Searching")
         /\ searches' = Append(searches, [pc |-> "extract", query |-> strip(query)])
         /\ trace' = [Eff("search_fast", "ui") EXCEPT !.widget = TRUE,
                                                      !.spawn = "search"]

\* Mutant of search_raise: the error leaves _search_fast_thread.
search_raise_Uncaught(i) ==
    /\ searches[i].pc = "extract"
    /\ searches' = [searches EXCEPT ![i].pc = "crashed"]
    /\ UNCHANGED uiQueue
    /\ trace' = [Eff("search_raise", "search") EXCEPT !.extract = TRUE]

\* _search_fast_thread: extract_info returns, the results are built and
\* display_results_fast is queued.
search_return(i) ==
    /\ searches[i].pc = "extract"
    /\ Len(uiQueue) < MaxQueue
    /\ \E entries \in SearchInfos(searches[i].query) :
            After0(Callback("display_results_fast", 0,
                            Some([j \in DOMAIN entries |-> SearchResult(entries[j])])))
    /\ searches' = [searches EXCEPT ![i] = Ended]
    /\ trace' = [Eff("search_return", "search") EXCEPT !.extract = TRUE]

\* _search_fast_thread: extract_info, or the construction of the results,
\* raises; the except branch queues the failure message.
search_raise(i) ==
    /\ searches[i].pc = "extract"
    /\ Len(uiQueue) < MaxQueue
    /\ After0(Callback("search_failed", 0, None))
    /\ searches' = [searches EXCEPT ![i] = Ended]
    /\ trace' = [Eff("search_raise", "search") EXCEPT !.extract = TRUE]

\* The UI thread runs a search worker's callback: display_results_fast, or
\* the lambda that sets the status label.
run_search_callback(cb) ==
    /\ cb.fn \in {"display_results_fast", "search_failed"}
    /\ IF cb.fn = "search_failed"
       THEN /\ status_label' = Status("Search failed")
            /\ UNCHANGED search_results
       ELSE IF cb.arg[1] = <<>>
       THEN /\ search_results' = Results("No results found", <<>>)
            /\ UNCHANGED status_label
       ELSE /\ search_results' = Results("Found", cb.arg[1])
            /\ status_label' = Status("Found results")
    /\ trace' = [Eff(cb.fn, "ui") EXCEPT !.widget = TRUE]

\* ------------------------------------------------------------------- Init

\* A history file left by an earlier run.
SavedItem == [title |-> Title(0, 5), date |-> <<0, 0>>, format |-> "mp3"]

\* A history file holding one item more than the cap: load_history takes
\* whatever list the file holds.
LongFile == PickledFile([j \in 1..(HistoryCap + 1) |->
                            [title |-> Title(j, 5), date |-> <<0, 0>>, format |-> "mp4"]])

ShortStores == {MissingFile, CorruptFile, PickledFile(<<SavedItem>>)}
InitStores == ShortStores \cup {LongFile}

\* The state when __init__ returns: the widgets as setup_ui builds them, the
\* history as load_history read it, check_ffmpeg armed by after(1000, ...).
Init ==
    /\ url_entry = EmptyUrl
    /\ download_btn = "disabled"
    /\ format_var = "mp4"
    /\ quality_var = "1080p"
    /\ ffmpeg_available = FALSE
    /\ ffmpeg_installed \in BOOLEAN
    /\ is_analyzing = FALSE
    /\ video_info_cache = [k \in CacheKeys |-> None]
    /\ current_video_info = None
    /\ status_label = Status("Ready")
    /\ pending_resets = 0
    /\ store \in InitStores
    /\ download_history = load_history(store)
    /\ now = 0
    /\ probes = <<>>
    /\ downloads = <<>>
    /\ installs = <<>>
    /\ searches = <<>>
    /\ search_results = NoResults
    /\ progress = [label |-> "", bar |-> None]
    /\ dialogs = 0
    /\ install_btn = "normal"
    /\ uiQueue = <<>>
    /\ timers = {"check_ffmpeg"}
    /\ scheduled = <<>>
    /\ handled = <<>>
    /\ n_appends = 0
    /\ appended = <<>>
    /\ trace = Eff("init", "ui")

\* ------------------------------------------------------- history log alone

\* The info of the n-th completed download: titles differ from one download
\* to the next and grow past the 40 characters add_to_history keeps.
HistInfo(n) == [title |-> Title(n, 30 + n)]

HistInit == Init /\ store \in {MissingFile, CorruptFile} /\ ffmpeg_installed

\* A download completes and its add_to_history callback runs.
HistAppend ==
    /\ n_appends < MaxAppends
    /\ add_to_history(HistInfo(n_appends + 1), SaveOutcomes)
    /\ UNCHANGED <<quality_var, search_results, uiVars, ffmpeg_available, ffmpeg_installed, cacheVars,
                   status_label, pending_resets, now, workerVars, uiQueue,
                   timers, ghostVars, miscVars>>

\* The user presses a "Clear" button.
HistClear ==
    /\ clear_history
    /\ UNCHANGED <<quality_var, search_results, uiVars, ffmpeg_available, ffmpeg_installed, cacheVars, now,
                   workerVars, uiQueue, timers, ghostVars, miscVars>>

HistStatusReset ==
    /\ status_reset
    /\ UNCHANGED <<quality_var, search_results, uiVars, ffmpeg_available, ffmpeg_installed, cacheVars,
                   histVars, now, workerVars, uiQueue, timers, ghostVars, miscVars>>

HistNext == HistAppend \/ HistClear \/ HistStatusReset

HistSpec == HistInit /\ [][HistNext]_vars

\* The last n elements of s, newest first.
RECURSIVE Reverse(_)
Reverse(s) == IF s = <<>> THEN <<>> ELSE Reverse(Tail(s)) \o <<Head(s)>>

NewestFirst(s, n) ==
    IF Len(s) <= n THEN Reverse(s) ELSE Reverse(SubSeq(s, Len(s) - n + 1, Len(s)))

\* C6: starting from an empty log, after any sequence of add_to_history calls
\* the log holds at most 20 items, and it is exactly the most recently
\* appended items (the 20 most recent once more than 20 were appended),
\* newest first.
C6_HistoryBound ==
    /\ Len(download_history) <= HistoryCap
    /\ download_history # <<>> => download_history = NewestFirst(appended, HistoryCap)

C6_Witness ==
    /\ Len(appended) > HistoryCap
    /\ Len(download_history) = HistoryCap
    /\ trace.op = "add_to_history"

\* C9: clear_history on an already-empty log does not ask for confirmation,
\* does not write the history file, and leaves the log empty.
C9_ClearEmptyNoop ==
    [][(HistClear /\ download_history = <<>>) =>
            /\ trace'.prompt = "none"
            /\ trace'.save = "none"
            /\ store' = store
            /\ download_history' = <<>>]_vars

C9_Witness ==
    /\ trace.op = "clear_history"
    /\ trace.prompt = "none"
    /\ download_history = <<>>
    /\ store.kind = "pickled"
    /\ store.items # <<>>

\* C10: clear_history on a non-empty log empties the log and writes the
\* history file only if the user confirms; if the user declines, the log and
\* the history file are both unchanged.
C10_ClearNeedsConfirm ==
    [][(HistClear /\ download_history # <<>>) =>
            /\ trace'.prompt \in {"yes", "no"}
            /\ trace'.prompt = "no" =>
                    /\ download_history' = download_history
                    /\ store' = store
                    /\ trace'.save = "none"
            /\ trace'.prompt = "yes" =>
                    /\ download_history' = <<>>
                    /\ trace'.save # "none"
                    /\ trace'.save = "ok" => store' = PickledFile(<<>>)]_vars

C10_Witness ==
    /\ trace.op = "clear_history"
    /\ trace.prompt = "no"
    /\ download_history # <<>>
    /\ store = PickledFile(download_history)

\* ------------------------------------------------------- probe and cache

ProbeInit == Init /\ store = MissingFile /\ ffmpeg_installed

\* The texts typed and pasted in this specification.
ProbeUrls == {EmptyUrl, TubeUrl, ListUrl}

ProbeType ==
    /\ \E u \in ProbeUrls : TypeUrl(u)
    /\ UNCHANGED <<quality_var, search_results, download_btn, format_var, ffmpeg_available, ffmpeg_installed,
                   cacheVars, status_label, pending_resets, histVars, now,
                   workerVars, uiQueue, timers, ghostVars, miscVars>>

ProbeKeyRelease ==
    /\ on_url_change
    /\ UNCHANGED <<quality_var, search_results, url_entry, format_var, ffmpeg_available, ffmpeg_installed,
                   cacheVars, status_label, pending_resets, histVars, now,
                   workerVars, uiQueue, timers, ghostVars, miscVars>>

ProbeReturn ==
    /\ press_return
    /\ UNCHANGED <<quality_var, search_results, uiVars, ffmpeg_available, ffmpeg_installed, pending_resets,
                   histVars, now, downloads, installs, searches, uiQueue, timers,
                   ghostVars, miscVars>>

ProbePaste ==
    /\ \E clip \in ProbeUrls : paste_url(clip, FALSE)
    /\ UNCHANGED <<quality_var, search_results, format_var, ffmpeg_available, ffmpeg_installed, histVars, now,
                   downloads, installs, searches, uiQueue, timers, ghostVars, miscVars>>

ProbeWorker ==
    /\ \E i \in DOMAIN probes :
            probe_extract(i) \/ probe_schedule(i) \/ probe_finally(i)
    /\ UNCHANGED <<quality_var, search_results, uiVars, ffmpeg_available, ffmpeg_installed, status_label,
                   pending_resets, histVars, now, downloads, installs, searches,
                   timers, ghostVars, miscVars>>

ProbeCallback ==
    /\ uiQueue # <<>>
    /\ run_probe_callback(uiQueue[NextCallback(uiQueue)])
    /\ uiQueue' = Without(uiQueue, NextCallback(uiQueue))
    /\ UNCHANGED <<quality_var, search_results, uiVars, ffmpeg_available, ffmpeg_installed, is_analyzing,
                   video_info_cache, pending_resets, histVars, now, workerVars,
                   timers, ghostVars, miscVars>>

ProbeTick ==
    /\ \E d \in TickSteps : Tick(d)
    /\ UNCHANGED <<quality_var, search_results, uiVars, ffmpeg_available, ffmpeg_installed, cacheVars,
                   status_label, pending_resets, histVars, workerVars, uiQueue,
                   timers, ghostVars, miscVars>>

ProbeNext ==
    \/ ProbeType \/ ProbeKeyRelease \/ ProbeReturn \/ ProbePaste
    \/ ProbeWorker \/ ProbeCallback \/ ProbeTick

ProbeSpec == ProbeInit /\ [][ProbeNext]_vars

\* The entry cached for a URL is present and younger than the window.
FreshEntry(url) ==
    /\ video_info_cache[CacheKeyOf(url)] # None
    /\ Fresh(video_info_cache[CacheKeyOf(url)][1].time, now)

\* C2: at most one probe worker runs at any time, and analyze_url_fast called
\* while is_analyzing is set starts no worker and does not call the
\* extractor, whatever the URL.
C2_SingleProbe ==
    /\ [](Cardinality(Running(probes)) <= 1)
    /\ [][(is_analyzing /\ trace'.url # None) =>
            /\ probes' = probes
            /\ trace'.spawn = "none"
            /\ ~trace'.extract]_vars

C2_Witness ==
    /\ is_analyzing
    /\ Cardinality(Running(probes)) = 1
    /\ trace.url \in {Some(TubeUrl), Some(ListUrl)}
    /\ trace.spawn = "none"
    /\ \E i \in Running(probes) : probes[i].pc = "extract"

\* C4: the metadata cache and the history log are written only by steps of
\* the UI thread.
C4_UiOnlyWrites == (trace.cache \/ trace.hist) => trace.thread = "ui"

\* C7: the lookup in analyze_url_fast returns an entry whose age is below 300
\* seconds, and treats an entry whose age is 300 seconds or more as absent
\* (a probe is started) although the entry is still in the map.
C7_Freshness ==
    /\ trace.lookup = "hit" =>
            /\ trace.age < FreshnessWindow
            /\ trace.spawn = "none"
            /\ video_info_cache[CacheKeyOf(trace.url[1])] # None
            /\ current_video_info =
                    Some(video_info_cache[CacheKeyOf(trace.url[1])][1].info)
    /\ trace.lookup = "expired" =>
            /\ trace.age >= FreshnessWindow
            /\ trace.spawn = "probe"
            /\ video_info_cache[CacheKeyOf(trace.url[1])] # None
    /\ trace.lookup = "absent" =>
            /\ trace.spawn = "probe"
            /\ video_info_cache[CacheKeyOf(trace.url[1])] = None

C7_Witness ==
    /\ trace.lookup = "expired"
    /\ trace.age = FreshnessWindow
    /\ video_info_cache[CacheKeyOf(trace.url[1])] # None

\* C8: analyze_url_fast for a URL whose cache entry is fresh shows the cached
\* info, starts no probe worker and does not call the extractor; a probe
\* worker is started only when the entry is absent or expired; a fresh entry
\* is never overwritten.
C8_FreshServedFromCache ==
    /\ [][(trace'.url # None /\ trace'.url # Some(EmptyUrl)
                /\ FreshEntry(trace'.url[1])) =>
            /\ status_label' =
                    InfoStatus(video_info_cache[CacheKeyOf(trace'.url[1])][1].info)
            /\ current_video_info' =
                    Some(video_info_cache[CacheKeyOf(trace'.url[1])][1].info)
            /\ probes' = probes
            /\ ~trace'.extract]_vars
    /\ [][trace'.spawn = "probe" => ~FreshEntry(trace'.url[1])]_vars
    /\ [][\A u \in Urls :
            video_info_cache'[CacheKeyOf(u)] # video_info_cache[CacheKeyOf(u)]
                => ~FreshEntry(u)]_vars

\* The part of C8 that holds: a fresh entry starts no probe worker, calls no
\* extractor and is never overwritten.
C8_FreshNeverProbed ==
    /\ [][(trace'.url # None /\ trace'.url # Some(EmptyUrl)
                /\ FreshEntry(trace'.url[1])) =>
            /\ probes' = probes
            /\ ~trace'.extract]_vars
    /\ [][trace'.spawn = "probe" => ~FreshEntry(trace'.url[1])]_vars
    /\ [][\A u \in Urls :
            video_info_cache'[CacheKeyOf(u)] # video_info_cache[CacheKeyOf(u)]
                => ~FreshEntry(u)]_vars

\* ------------------------------------------------------------ downloads

DlInit == Init /\ store = MissingFile /\ ffmpeg_installed

\* The texts typed and the progress reports made in this specification.
DlUrls == {EmptyUrl, TubeUrl}
DlHooks == {HookHalf, HookNoTotal}

DlType ==
    /\ \E u \in DlUrls : TypeUrl(u)
    /\ UNCHANGED <<quality_var, search_results, download_btn, format_var, ffmpeg_available, ffmpeg_installed,
                   cacheVars, status_label, pending_resets, histVars, now,
                   workerVars, uiQueue, timers, ghostVars, miscVars>>

DlKeyRelease ==
    /\ on_url_change
    /\ UNCHANGED <<quality_var, search_results, url_entry, format_var, ffmpeg_available, ffmpeg_installed,
                   cacheVars, status_label, pending_resets, histVars, now,
                   workerVars, uiQueue, timers, ghostVars, miscVars>>

\* The user clicks the download button; a disabled button ignores the click.
DlClick ==
    /\ download_btn = "normal"
    /\ start_download_fast("click_download", {"no"}, MaxDownloads)
    /\ UNCHANGED <<quality_var, search_results, url_entry, format_var, ffmpeg_available, ffmpeg_installed,
                   cacheVars, histVars, now, probes, searches, dialogs, uiQueue,
                   timers>>

DlStatusReset ==
    /\ status_reset
    /\ UNCHANGED <<quality_var, search_results, uiVars, ffmpeg_available, ffmpeg_installed, cacheVars,
                   histVars, now, workerVars, uiQueue, timers, ghostVars, miscVars>>

DlWorker ==
    /\ \E i \in DOMAIN downloads :
            \/ download_start(i)
            \/ \E d \in DlHooks : download_progress(i, d)
            \/ download_return(i)
            \/ \E e \in DownloadErrors : download_raise(i, e)
            \/ download_finish(i)
    /\ UNCHANGED <<quality_var, search_results, uiVars, ffmpeg_available, ffmpeg_installed, cacheVars,
                   status_label, pending_resets, histVars, now, probes, installs,
                   searches, timers, handled, miscVars>>

DlCallback ==
    /\ uiQueue # <<>>
    /\ run_download_callback(uiQueue[NextCallback(uiQueue)], {"ok"})
    /\ uiQueue' = Without(uiQueue, NextCallback(uiQueue))
    /\ UNCHANGED <<quality_var, search_results, url_entry, format_var, ffmpeg_available, ffmpeg_installed,
                   cacheVars, now, workerVars, install_btn, timers>>

DlNext ==
    \/ DlType \/ DlKeyRelease \/ DlClick
    \/ DlStatusReset \/ DlWorker \/ DlCallback

DlSpec == DlInit /\ [][DlNext]_vars

\* C1: at most one download worker runs at any time.
C1_SingleDownload == Cardinality(Running(downloads)) <= 1

\* ------------------------------------------- one download task's callbacks

OrdClick ==
    /\ download_btn = "normal"
    /\ start_download_fast("click_download", {"no"}, MaxTasks)
    /\ UNCHANGED <<quality_var, search_results, url_entry, format_var, ffmpeg_available, ffmpeg_installed,
                   cacheVars, histVars, now, probes, searches, dialogs, uiQueue,
                   timers>>

OrderNext ==
    \/ DlType \/ DlKeyRelease \/ OrdClick
    \/ DlStatusReset \/ DlWorker \/ DlCallback

OrderSpec == DlInit /\ [][OrderNext]_vars

IsPrefix(s, t) == Len(s) <= Len(t) /\ s = SubSeq(t, 1, Len(s))

\* The place of a callback in a task's sequence: progress updates, then the
\* outcome (the history append, or the error dialog or notification), then
\* the final reset (download_complete_fast or reset_download_button).
Rank(fn) ==
    CASE fn = "update_progress_fast" -> 1
      [] fn \in {"add_to_history", "show_ffmpeg_error", "error_notification"} -> 2
      [] OTHER -> 3

Fns(log) == {log[j].fn : j \in 1..Len(log)}

\* C5: for each download task the UI thread runs the task's callbacks in the
\* order the worker queued them: every progress update before the history
\* append, the history append before download_complete_fast, on failure the
\* error outcome before reset_download_button, and nothing after the final
\* reset.
C5_CallbackOrder ==
    \A i \in DOMAIN downloads :
        /\ IsPrefix(handled[i], scheduled[i])
        /\ \A j, k \in 1..Len(handled[i]) :
                j < k =>
                    /\ Rank(handled[i][j].fn) <= Rank(handled[i][k].fn)
                    /\ Rank(handled[i][j].fn) > 1 =>
                            Rank(handled[i][j].fn) < Rank(handled[i][k].fn)
        /\ "download_complete_fast" \in Fns(handled[i]) =>
                "add_to_history" \in Fns(handled[i])
        /\ "reset_download_button" \in Fns(handled[i]) =>
                Fns(handled[i]) \cap {"show_ffmpeg_error", "error_notification"} # {}

C5_Witness ==
    \E i \in DOMAIN downloads :
        /\ Len(handled[i]) = 3
        /\ handled[i][1].fn = "update_progress_fast"
        /\ handled[i][2].fn = "add_to_history"
        /\ handled[i][3].fn = "download_complete_fast"

\* ------------------------------------------------------ FFmpeg installation

InstallInit == Init /\ store = MissingFile

\* restart_app, armed with after(2000, ...): os.execl replaces the process;
\* the new one starts from __init__ with the files the old one left.
InstRestart ==
    /\ "restart_app" \in timers
    /\ url_entry' = EmptyUrl
    /\ download_btn' = "disabled"
    /\ format_var' = "mp4"
    /\ quality_var' = "1080p"
    /\ ffmpeg_available' = FALSE
    /\ is_analyzing' = FALSE
    /\ video_info_cache' = [k \in CacheKeys |-> None]
    /\ current_video_info' = None
    /\ status_label' = Status("Ready")
    /\ pending_resets' = 0
    /\ download_history' = load_history(store)
    /\ probes' = <<>>
    /\ downloads' = <<>>
    /\ installs' = <<>>
    /\ searches' = <<>>
    /\ search_results' = NoResults
    /\ progress' = [label |-> "", bar |-> None]
    /\ dialogs' = 0
    /\ install_btn' = "normal"
    /\ uiQueue' = <<>>
    /\ timers' = {"check_ffmpeg"}
    /\ scheduled' = <<>>
    /\ handled' = <<>>
    /\ n_appends' = 0
    /\ appended' = <<>>
    /\ trace' = Eff("restart_app", "ui")
    /\ UNCHANGED <<ffmpeg_installed, store, now>>

\* The user clicks "Auto-Install FFmpeg"; a disabled button ignores the click.
InstClick ==
    /\ install_btn = "normal"
    /\ install_ffmpeg
    /\ trace' = [Eff("install_ffmpeg", "ui") EXCEPT !.widget = TRUE, !.spawn = "install"]
    /\ UNCHANGED <<quality_var, search_results, uiVars, ffmpeg_available, ffmpeg_installed, cacheVars,
                   status_label, pending_resets, histVars, now, probes, downloads,
                   searches, progress, dialogs, uiQueue, timers, ghostVars>>

InstCheckFfmpeg ==
    /\ check_ffmpeg
    /\ UNCHANGED <<quality_var, search_results, uiVars, ffmpeg_installed, cacheVars, status_label,
                   pending_resets, histVars, now, workerVars, progress, dialogs,
                   uiQueue, ghostVars>>

InstStatusReset ==
    /\ status_reset
    /\ UNCHANGED <<quality_var, search_results, uiVars, ffmpeg_available, ffmpeg_installed, cacheVars,
                   histVars, now, workerVars, uiQueue, timers, ghostVars, miscVars>>

InstWorker ==
    /\ \E i \in DOMAIN installs :
            \/ install_begin(i)
            \/ \E ok \in BOOLEAN : install_download(i, ok)
            \/ \E ok \in BOOLEAN : install_extract(i, ok)
            \/ install_report(i)
            \/ install_available(i)
            \/ install_arm_restart(i)
    /\ UNCHANGED <<quality_var, search_results, uiVars, cacheVars, pending_resets, histVars, now, probes,
                   downloads, searches, ghostVars, miscVars>>

InstCallback ==
    /\ uiQueue # <<>>
    /\ run_install_callback(uiQueue[NextCallback(uiQueue)])
    /\ uiQueue' = Without(uiQueue, NextCallback(uiQueue))
    /\ UNCHANGED <<quality_var, search_results, uiVars, ffmpeg_available, ffmpeg_installed, cacheVars,
                   histVars, now, workerVars, progress, dialogs, timers,
                   ghostVars>>

InstallNext ==
    \/ InstClick \/ InstCheckFfmpeg \/ InstStatusReset \/ InstWorker
    \/ InstCallback \/ InstRestart

InstallSpec == InstallInit /\ [][InstallNext]_vars

\* C3: every step that changes widget state runs on the UI thread; a worker
\* thread never calls a widget's configure itself.
C3_WidgetsOnUiThread == trace.widget => trace.thread = "ui"

\* ------------------------------------------------- the history file at start

MaxLoadLen == 3         \* items in the log, and appends per run, in LoadSpec

LoadInit == Init /\ store \in ShortStores /\ ffmpeg_installed

\* A download completes and its add_to_history callback runs.
LoadAppend ==
    /\ Len(download_history) < MaxLoadLen
    /\ n_appends < MaxLoadLen
    /\ add_to_history(HistInfo(n_appends + 1), SaveOutcomes)
    /\ UNCHANGED <<quality_var, search_results, uiVars, ffmpeg_available, ffmpeg_installed, cacheVars,
                   status_label, pending_resets, now, workerVars, uiQueue,
                   timers, ghostVars, miscVars>>

\* The window is closed and the program started again: __init__ runs in a
\* new process and load_history reads the file the old one left.
LoadStart ==
    /\ url_entry' = EmptyUrl
    /\ download_btn' = "disabled"
    /\ format_var' = "mp4"
    /\ quality_var' = "1080p"
    /\ ffmpeg_available' = FALSE
    /\ is_analyzing' = FALSE
    /\ video_info_cache' = [k \in CacheKeys |-> None]
    /\ current_video_info' = None
    /\ status_label' = Status("Ready")
    /\ pending_resets' = 0
    /\ download_history' = load_history(store)
    /\ probes' = <<>>
    /\ downloads' = <<>>
    /\ installs' = <<>>
    /\ searches' = <<>>
    /\ search_results' = NoResults
    /\ progress' = [label |-> "", bar |-> None]
    /\ dialogs' = 0
    /\ install_btn' = "normal"
    /\ uiQueue' = <<>>
    /\ timers' = {"check_ffmpeg"}
    /\ scheduled' = <<>>
    /\ handled' = <<>>
    /\ n_appends' = 0
    /\ appended' = <<>>
    /\ trace' = Eff("load_history", "ui")
    /\ UNCHANGED <<ffmpeg_installed, store, now>>

LoadNext == LoadAppend \/ HistClear \/ HistStatusReset \/ LoadStart

LoadSpec == LoadInit /\ [][LoadNext]_vars

\* A valid history log: a sequence of items, each with a title, a date and a
\* format.
IsHistory(h) ==
    /\ DOMAIN h = 1..Len(h)
    /\ \A j \in 1..Len(h) : DOMAIN h[j] = {"title", "date", "format"}

CheckedUrls == {PlainUrl, TubeUrl}

UrlType ==
    /\ \E u \in CheckedUrls : TypeUrl(u)
    /\ UNCHANGED <<quality_var, search_results, download_btn, format_var, ffmpeg_available, ffmpeg_installed,
                   cacheVars, status_label, pending_resets, histVars, now,
                   workerVars, uiQueue, timers, ghostVars, miscVars>>

UrlPaste ==
    /\ \E clip \in CheckedUrls : paste_url(clip, FALSE)
    /\ UNCHANGED <<quality_var, search_results, format_var, ffmpeg_available, ffmpeg_installed, histVars, now,
                   downloads, installs, searches, uiQueue, timers, ghostVars, miscVars>>

UrlNext ==
    \/ UrlType \/ DlKeyRelease \/ ProbeReturn \/ UrlPaste \/ OrdClick
    \/ ProbeWorker \/ DlWorker \/ ProbeCallback \/ DlCallback \/ DlStatusReset

UrlSpec == DlInit /\ [][UrlNext]_vars

\* C12: every probe worker and every download worker was started for a URL
\* that is not empty and contains 'youtube.com' or 'youtu.be' or starts with
\* 'http'.
C12_WorkersOnlyForUrls ==
    /\ \A i \in Running(probes) : LooksLikeUrl(probes[i].url)
    /\ \A i \in Running(downloads) : LooksLikeUrl(downloads[i].url)

\* ------------------------------------------------ mp3 and the FFmpeg check

Mp3Formats == {"mp4", "mp3"}

\* The user clicks a format button.
Mp3SetFormat ==
    /\ \E f \in Mp3Formats : f # format_var /\ set_format(f)
    /\ UNCHANGED <<quality_var, search_results, url_entry, download_btn, ffmpeg_available, ffmpeg_installed,
                   cacheVars, status_label, pending_resets, histVars, now,
                   workerVars, uiQueue, timers, ghostVars, miscVars>>

\* The user clicks the download button and answers the prompt, if one is
\* shown, either way.
Mp3Click ==
    /\ download_btn = "normal"
    /\ start_download_fast("click_download", {"yes", "no"}, MaxTasks)
    /\ UNCHANGED <<quality_var, search_results, url_entry, format_var, ffmpeg_available, ffmpeg_installed,
                   cacheVars, histVars, now, probes, searches, dialogs, uiQueue,
                   timers>>

\* A download worker whose extractor reports no progress and either returns
\* or fails in the conversion.
Mp3Worker ==
    /\ \E i \in DOMAIN downloads :
            \/ download_start(i)
            \/ download_return(i)
            \/ download_raise(i, FfmpegError)
            \/ download_finish(i)
    /\ UNCHANGED <<quality_var, search_results, uiVars, ffmpeg_available, ffmpeg_installed, cacheVars,
                   status_label, pending_resets, histVars, now, probes, installs,
                   searches, timers, handled, miscVars>>

\* The steps of an installation worker the user started from the prompt are
\* those of InstallSpec; this specification follows the download side.
Mp3Next ==
    \/ DlType \/ DlKeyRelease \/ Mp3SetFormat \/ Mp3Click \/ InstCheckFfmpeg
    \/ Mp3Worker \/ DlCallback \/ DlStatusReset

Mp3Spec == InstallInit /\ [][Mp3Next]_vars

\* What a start_download_fast that only prompts leaves alone.
OnlyPrompted ==
    /\ trace'.prompt \in {"yes", "no"}
    /\ downloads' = downloads
    /\ trace'.spawn # "download"
    /\ ~trace'.extract
    /\ histVars' = histVars
    /\ status_label' = status_label
    /\ pending_resets' = pending_resets
    /\ dialogs' = dialogs
    /\ uiQueue' = uiQueue
    /\ download_btn' = download_btn
    /\ progress' = progress
    /\ trace'.prompt = "no" => installs' = installs /\ install_btn' = install_btn
    /\ trace'.prompt = "yes" => trace'.spawn = "install"

\* C13, as stated: start_download_fast with format mp3 while FFmpeg is
\* recorded as unavailable starts no download worker, calls no extractor,
\* appends nothing to the history and shows no message; its only outcome is
\* the "FFmpeg Required" prompt.
C13_Mp3OnlyPrompt ==
    [][(trace'.op = "click_download" /\ format_var = "mp3" /\ ~ffmpeg_available)
            => OnlyPrompted]_vars

\* C13, amended: the same for a call made with a non-empty URL in the field;
\* with an empty URL the call shows "Enter URL first" and no prompt.
C13_Mp3OnlyPromptWithUrl ==
    [][(trace'.op = "click_download" /\ format_var = "mp3" /\ ~ffmpeg_available) =>
            IF strip(url_entry) # EmptyUrl
            THEN OnlyPrompted
            ELSE /\ trace'.prompt = "none"
                 /\ status_label' = Status("Enter URL first")
                 /\ downloads' = downloads
                 /\ installs' = installs
                 /\ histVars' = histVars]_vars

\* check_ffmpeg has found no FFmpeg, mp3 is selected, and the user declined
\* the prompt of a download request.
C13_Witness ==
    /\ trace.op = "click_download"
    /\ trace.prompt = "no"
    /\ format_var = "mp3"
    /\ ~ffmpeg_available
    /\ "check_ffmpeg" \notin timers
    /\ strip(url_entry) = TubeUrl
    /\ downloads = <<>>
    /\ n_appends = 0

\* ------------------------------------------------------- failed downloads

\* The errors extract_info raises in this specification: the two conversion
\* errors in the capitalisation yt-dlp uses, a long error and a short one.
PostprocessingError ==
    [words |-> <<"ERROR", "Postprocessing", "failed">>, len |-> 60]
ShortError == [words |-> <<"timeout">>, len |-> 7]
ClassifiedErrors == {FfmpegError, PostprocessingError, NetworkError, ShortError}

FailWorker ==
    /\ \E i \in DOMAIN downloads :
            \/ download_start(i)
            \/ download_return(i)
            \/ \E e \in ClassifiedErrors : download_raise(i, e)
            \/ download_finish(i)
    /\ UNCHANGED <<quality_var, search_results, uiVars, ffmpeg_available, ffmpeg_installed, cacheVars,
                   status_label, pending_resets, histVars, now, probes, installs,
                   searches, timers, handled, miscVars>>

FailNext ==
    \/ DlType \/ DlKeyRelease \/ OrdClick
    \/ FailWorker \/ DlCallback \/ DlStatusReset

FailSpec == DlInit /\ [][FailNext]_vars

\* The error text contains 'ffmpeg' or 'postprocessing' in any capitalisation.
MentionsConversion(e) ==
    \E j \in 1..Len(e.words) :
        e.words[j] \in {"ffmpeg", "FFmpeg", "postprocessing", "Postprocessing"}

\* The first n characters of an error text.
Truncated(e, n) == [e EXCEPT !.len = IF e.len < n THEN e.len ELSE n]

\* The outcome callbacks among those a worker queued.
Outcomes(log) ==
    {j \in 1..Len(log) : log[j].fn \in {"show_ffmpeg_error", "error_notification"}}

\* C14: a failing download schedules exactly one outcome: show_ffmpeg_error
\* when the error text contains 'ffmpeg' or 'postprocessing' in any
\* capitalisation, otherwise the notification with the first 50 characters
\* of the error text; no worker ever schedules both, and the notification the
\* UI thread shows is the truncated text.
C14_OneFailureOutcome ==
    /\ [][\A i \in DOMAIN downloads : \A e \in ClassifiedErrors :
            download_raise(i, e) =>
                /\ Len(scheduled'[i]) = Len(scheduled[i]) + 1
                /\ LET cb == scheduled'[i][Len(scheduled'[i])]
                   IN  IF MentionsConversion(e)
                       THEN cb.fn = "show_ffmpeg_error"
                       ELSE /\ cb.fn = "error_notification"
                            /\ cb.arg = Some(Truncated(e, 50))]_vars
    /\ [](\A i \in DOMAIN downloads :
            /\ Cardinality(Outcomes(scheduled[i])) <= 1
            /\ "reset_download_button" \in Fns(scheduled[i]) =>
                    Cardinality(Outcomes(scheduled[i])) = 1
            /\ "download_complete_fast" \in Fns(scheduled[i]) =>
                    Outcomes(scheduled[i]) = {})
    /\ [](status_label.msg = "Error" =>
            /\ status_label.info[1].len <= 50
            /\ ~MentionsConversion(status_label.info[1]))

\* A download failed with the 80-character network error, and the UI thread
\* shows its first 50 characters; the dialog was not opened.
C14_Witness ==
    /\ trace.op = "error_notification"
    /\ status_label = [msg |-> "Error", info |-> Some(Truncated(NetworkError, 50))]
    /\ dialogs = 0
    /\ \E i \in DOMAIN downloads :
            /\ Len(handled[i]) = 1
            /\ Cardinality(Outcomes(scheduled[i])) = 1

\* ------------------------------------------- history appends and successes

\* Several downloads, each returning or failing, started one after another or
\* at once.
TallyNext ==
    \/ DlType \/ DlKeyRelease \/ DlClick
    \/ Mp3Worker \/ DlCallback \/ DlStatusReset

TallySpec == DlInit /\ [][TallyNext]_vars

\* How often fn occurs in a log of callbacks.
Count(log, fn) == Cardinality({j \in 1..Len(log) : log[j].fn = fn})

\* The downloads whose worker took the success path to its end, and those
\* whose worker took the failure path.
Succeeded == {i \in DOMAIN downloads : Count(scheduled[i], "download_complete_fast") = 1}
Failed == {i \in DOMAIN downloads : Count(scheduled[i], "reset_download_button") = 1}

\* Nothing is running and nothing is waiting for the UI thread.
Quiet == Running(downloads) = {} /\ uiQueue = <<>>

\* C15: every download that succeeded has exactly one add_to_history call
\* scheduled for it, a download that failed has none, and add_to_history has
\* run once for each append handled; once nothing is in flight the number of
\* add_to_history calls equals the number of downloads that succeeded, and so
\* does the length of the log (below the cap).
C15_AppendsAreSuccesses ==
    /\ \A i \in DOMAIN downloads :
            /\ i \in Succeeded \/ downloads[i].pc = "returned" =>
                    Count(scheduled[i], "add_to_history") = 1
            /\ i \in Failed \/ downloads[i].pc \in {"start", "extract", "failed"} =>
                    Count(scheduled[i], "add_to_history") = 0
            /\ Running(downloads) = {} => i \in Succeeded \cup Failed
    /\ n_appends =
            Cardinality({i \in DOMAIN downloads : Count(handled[i], "add_to_history") = 1})
    /\ Quiet =>
            /\ n_appends = Cardinality(Succeeded)
            /\ Len(download_history) = n_appends

\* Two downloads are over, one succeeded and one failed, and the log holds
\* one item.
C15_Witness ==
    /\ Quiet
    /\ Cardinality(Succeeded) = 1
    /\ Cardinality(Failed) = 1
    /\ n_appends = 1
    /\ Len(download_history) = 1

\* ------------------------------------------------------- quality tiers

\* The user picks a tier in the quality menu.
QualSetQuality ==
    /\ \E j \in DOMAIN quality_options :
            quality_options[j] # quality_var /\ set_quality(quality_options[j])
    /\ UNCHANGED <<search_results, uiVars, ffmpeg_available, ffmpeg_installed, cacheVars,
                   status_label, pending_resets, histVars, now, workerVars,
                   uiQueue, timers, ghostVars, miscVars>>

\* The video formats of the format buttons.
VideoFormats == {"mp4", "mkv"}

\* The user clicks the button of a video format.
QualSetFormat ==
    /\ \E f \in VideoFormats : f # format_var /\ set_format(f)
    /\ UNCHANGED <<quality_var, search_results, url_entry, download_btn, ffmpeg_available,
                   ffmpeg_installed, cacheVars, status_label, pending_resets,
                   histVars, now, workerVars, uiQueue, timers, ghostVars, miscVars>>

\* A download worker whose extractor reports no progress and returns.
QualWorker ==
    /\ \E i \in DOMAIN downloads :
            download_start(i) \/ download_return(i) \/ download_finish(i)
    /\ UNCHANGED <<quality_var, search_results, uiVars, ffmpeg_available, ffmpeg_installed,
                   cacheVars, status_label, pending_resets, histVars, now, probes,
                   installs, searches, timers, handled, miscVars>>

\* The user types a YouTube URL.
QualType ==
    /\ TypeUrl(TubeUrl)
    /\ UNCHANGED <<quality_var, search_results, download_btn, format_var, ffmpeg_available,
                   ffmpeg_installed, cacheVars, status_label, pending_resets,
                   histVars, now, workerVars, uiQueue, timers, ghostVars, miscVars>>

QualityNext ==
    \/ QualType \/ DlKeyRelease \/ QualSetQuality \/ QualSetFormat
    \/ OrdClick \/ QualWorker \/ DlCallback \/ DlStatusReset

QualitySpec == DlInit /\ [][QualityNext]_vars

\* The height threshold of each tier.
TierHeight(q) ==
    CASE q = "144p" -> 144
      [] q = "240p" -> 240
      [] q = "360p" -> 360
      [] q = "480p" -> 480
      [] q = "720p" -> 720
      [] q = "1080p" -> 1080
      [] q = "1440p (2K)" -> 1440
      [] q = "2160p (4K)" -> 2160

\* C16: for a video download (any format but mp3) the format expression the
\* worker passes to the extractor depends on the selected quality tier alone:
\* the worst stream of height <= 144 for tier '144p', the best stream of
\* height <= h for each other tier of threshold h.
C16_QualityMap ==
    [][\A i \in DOMAIN downloads :
            (download_start(i) /\ format_var # "mp3") =>
                downloads'[i].ydl_opts[1].format =
                    [pick |-> IF quality_var = "144p" THEN "worst" ELSE "best",
                     height |-> Some(TierHeight(quality_var))]]_vars

\* An mkv download at the lowest tier is running.
C16_Witness ==
    \E i \in DOMAIN downloads :
        /\ downloads[i].pc = "extract"
        /\ downloads[i].format = Some("mkv")
        /\ quality_var = "144p"
        /\ trace.op = "download_start"
        /\ downloads[i].ydl_opts[1].format.pick = "worst"


\* ---------------------------------------------------------------------------
\* HookSpec: downloads whose extractor calls the progress hook with each of
\* the dictionaries of HookInputs.
\* ---------------------------------------------------------------------------

HookWorker ==
    /\ \E i \in DOMAIN downloads :
            \/ download_start(i)
            \/ \E d \in HookInputs : download_progress(i, d)
            \/ download_return(i)
            \/ download_finish(i)
    /\ UNCHANGED <<quality_var, search_results, uiVars, ffmpeg_available, ffmpeg_installed, cacheVars,
                   status_label, pending_resets, histVars, now, probes, installs,
                   searches, timers, handled, miscVars>>

HookNext ==
    \/ QualType \/ DlKeyRelease \/ OrdClick
    \/ HookWorker \/ DlCallback \/ DlStatusReset

HookSpec == DlInit /\ [][HookNext]_vars

\* The dictionary holds no total: neither key holds a number.
NoTotalAvailable(d) ==
    /\ d.total_bytes = None \/ d.total_bytes[1].none
    /\ d.total_bytes_estimate = None \/ d.total_bytes_estimate[1].none

\* The hook's call for download i schedules nothing and leaves the worker
\* inside extract_info.
HookSkipped(i) ==
    /\ uiQueue' = uiQueue
    /\ scheduled' = scheduled
    /\ downloads'[i].pc = "extract"

\* C17: a call of the progress hook with status 'downloading' and neither an
\* exact nor an estimated total available schedules no progress update and
\* raises nothing: the worker stays in the extractor call and the download is
\* not turned into a failure.
C17_NoTotalIsSkipped ==
    [][\A i \in DOMAIN downloads : \A d \in HookInputs :
          (NoTotalAvailable(d) /\ download_progress(i, d)) => HookSkipped(i)]_vars

\* The part of C17 that holds: with neither key in the dictionary the call is
\* skipped.
C17_AbsentTotalIsSkipped ==
    [][\A i \in DOMAIN downloads : \A d \in HookInputs :
          (d.total_bytes = None /\ d.total_bytes_estimate = None
             /\ download_progress(i, d)) => HookSkipped(i)]_vars


\* ---------------------------------------------------------------------------
\* LiveSpec: downloads under the scheduling the program runs with.  A started
\* thread runs on to its end, and Tk's main loop runs every queued callback
\* and every due timer.
\* ---------------------------------------------------------------------------

LiveWorker ==
    /\ \E i \in DOMAIN downloads :
            \/ download_start(i)
            \/ download_return(i)
            \/ \E e \in DownloadErrors : download_raise(i, e)
            \/ download_finish(i)
    /\ UNCHANGED <<quality_var, search_results, uiVars, ffmpeg_available, ffmpeg_installed, cacheVars,
                   status_label, pending_resets, histVars, now, probes, installs,
                   searches, timers, handled, miscVars>>

\* The user clicks the download button once the downloads started before
\* have ended.
LiveClick ==
    /\ Running(downloads) = {}
    /\ DlClick

LiveNext ==
    \/ DlType \/ DlKeyRelease \/ Mp3SetFormat \/ InstCheckFfmpeg \/ LiveClick
    \/ LiveWorker \/ DlCallback \/ DlStatusReset

\* The main loop never refuses a queued callback; DlCallback is disabled only
\* while the status label's pending timer is at its bound, hence SF.
LiveFair ==
    /\ WF_vars(LiveWorker)
    /\ SF_vars(DlCallback)
    /\ WF_vars(DlStatusReset)

LiveSpec == DlInit /\ [][LiveNext]_vars /\ LiveFair

\* The extractor call of download i has returned or raised.
ExtractorEnded(i) ==
    /\ i \in DOMAIN downloads
    /\ downloads[i].pc \in {"returned", "failed"}

ResetCallbacks == {"download_complete_fast", "reset_download_button"}

\* reset_download_button has run on the UI thread for download i.
ResetRan(i) ==
    /\ i \in DOMAIN handled
    /\ \E j \in 1..Len(handled[i]) : handled[i][j].fn \in ResetCallbacks

\* No automatic retry: a worker is created only by start_download_fast on the
\* UI thread, and a worker that has ended stays ended.
NoAutomaticRetry ==
    /\ Len(downloads') > Len(downloads) =>
           trace'.op = "click_download" /\ trace'.thread = "ui"
    /\ \A i \in DOMAIN downloads :
           downloads[i] = Ended => downloads'[i] = Ended

\* The step is the UI thread running the reset for some download while the
\* URL field is not empty: it enables the download button.
ResetEnables ==
    \A i \in DOMAIN handled :
        (/\ Len(handled'[i]) = Len(handled[i]) + 1
         /\ handled'[i][Len(handled'[i])].fn \in ResetCallbacks
         /\ strip(url_entry) # EmptyUrl)
        => download_btn' = "normal"

\* The step appends a fresh worker for the URL in the field.
FreshWorker ==
    /\ Len(downloads') = Len(downloads) + 1
    /\ downloads'[Len(downloads')] =
           [pc |-> "start", url |-> strip(url_entry), format |-> None,
            hooks |-> 0, ydl_opts |-> None,
            asked |-> Some([format |-> format_var, quality |-> quality_var])]
    /\ \A i \in DOMAIN downloads : downloads'[i] = downloads[i]

\* The step is start_download_fast, called after the reset of an earlier
\* download with a non-empty URL in the field.
StartAfterReset ==
    /\ trace'.op = "click_download"
    /\ vars' # vars
    /\ \E i \in DOMAIN handled : ResetRan(i)
    /\ strip(url_entry) # EmptyUrl

\* C18 as stated: every download worker whose extractor call returns or
\* raises eventually has reset_download_button run on the UI thread, nothing
\* retries it, and after that reset, with a non-empty URL in the field, a new
\* start_download_fast starts a fresh worker.
C18_ResetThenFreshStart ==
    /\ \A i \in 1..(MaxDownloads + 1) : ExtractorEnded(i) ~> ResetRan(i)
    /\ [][NoAutomaticRetry]_vars
    /\ [][ResetEnables]_vars
    /\ [][StartAfterReset => FreshWorker]_vars

\* C18, amended: the same, where the new start_download_fast starts a fresh
\* worker unless mp3 is selected while FFmpeg is unavailable.
C18_ResetThenFreshStartUnlessPrompt ==
    /\ \A i \in 1..(MaxDownloads + 1) : ExtractorEnded(i) ~> ResetRan(i)
    /\ [][NoAutomaticRetry]_vars
    /\ [][ResetEnables]_vars
    /\ [][(StartAfterReset /\ (format_var # "mp3" \/ ffmpeg_available))
            => FreshWorker]_vars

\* A second download was started after the first, which failed, was reset.
C18_Witness ==
    /\ Len(downloads) = 2
    /\ ResetRan(1)
    /\ handled[1][Len(handled[1])].fn = "reset_download_button"
    /\ downloads[1] = Ended
    /\ downloads[2].pc = "start"
    /\ trace.op = "click_download"


\* ---------------------------------------------------------------------------
\* FrameSpec: the probes of ProbeSpec in a process that loaded one history
\* item from its file.
\* ---------------------------------------------------------------------------

FrameInit == Init /\ store = PickledFile(<<SavedItem>>) /\ ffmpeg_installed

FrameSpec == FrameInit /\ [][ProbeNext]_vars

\* The step is the except branch of probe i: extract_info, or the code
\* before the cache write, raised.
ProbeFails(i) ==
    /\ probes[i].pc = "extract"
    /\ probes'[i].pc = "finally"

\* The step is the UI thread running the callback a failed probe queued.
FailureShown ==
    /\ uiQueue # <<>>
    /\ uiQueue[NextCallback(uiQueue)].fn = "analysis_failed"
    /\ uiQueue' = Without(uiQueue, NextCallback(uiQueue))

\* The metadata cache, the video info on display and the history log with
\* its file.
ProbeFrame == <<video_info_cache, current_video_info, histVars>>

\* C20: a probe whose extractor raises leaves the metadata cache and the
\* history log as they were: the failing step queues the analysis-failed
\* callback and nothing else, and that callback sets the status label to the
\* generic message and nothing else; the thread's last step only clears
\* is_analyzing.
C20_FailedProbeFrame ==
    /\ [][\A i \in DOMAIN probes : ProbeFails(i) =>
            /\ UNCHANGED <<ProbeFrame, status_label, is_analyzing, uiVars>>
            /\ uiQueue' = Append(uiQueue, Callback("analysis_failed", 0, None))]_vars
    /\ [][FailureShown =>
            /\ UNCHANGED <<ProbeFrame, is_analyzing, uiVars, workerVars>>
            /\ status_label' = Status("Analysis failed")]_vars
    /\ [][\A i \in DOMAIN probes :
            (probes[i].pc = "finally" /\ probes'[i] = Ended) =>
                /\ UNCHANGED <<ProbeFrame, status_label, uiVars, uiQueue>>
                /\ is_analyzing' = FALSE]_vars

\* The probe of the playlist URL failed after the probe of the video URL had
\* succeeded: the message is on display, the video's entry is still cached,
\* the playlist has no entry and the history holds its loaded item.
C20_Witness ==
    /\ trace.op = "analysis_failed"
    /\ status_label = Status("Analysis failed")
    /\ video_info_cache[CacheKeyOf(TubeUrl)] # None
    /\ video_info_cache[CacheKeyOf(ListUrl)] = None
    /\ current_video_info = Some(FastInfo(VideoInfo(TubeUrl)))
    /\ download_history = <<SavedItem>>
    /\ Len(probes) = 2


\* ---------------------------------------------------------------------------
\* CatchSpec: probes, downloads and searches whose extractor calls may
\* raise, started one after the other.
\* ---------------------------------------------------------------------------

\* No worker thread is running: in this specification the user starts an
\* operation when the threads of the earlier ones have ended.
Idle ==
    /\ Running(probes) = {}
    /\ Running(downloads) = {}
    /\ Running(searches) = {}

\* Enter in the URL field, for as many probes as downloads.
CatchReturn ==
    /\ Idle
    /\ Len(probes) < MaxTasks
    /\ ProbeReturn

CatchClick ==
    /\ Idle
    /\ OrdClick

CatchSearch ==
    /\ Idle
    /\ \E q \in Queries : search_fast(q)
    /\ UNCHANGED <<quality_var, search_results, uiVars, ffmpeg_available,
                   ffmpeg_installed, cacheVars, pending_resets, histVars, now,
                   probes, downloads, installs, uiQueue, timers, ghostVars,
                   miscVars>>

CatchSearchWorker ==
    /\ \E i \in DOMAIN searches : search_return(i) \/ search_raise(i)
    /\ UNCHANGED <<quality_var, search_results, uiVars, ffmpeg_available,
                   ffmpeg_installed, cacheVars, status_label, pending_resets,
                   histVars, now, probes, downloads, installs, timers,
                   ghostVars, miscVars>>

CatchSearchCallback ==
    /\ uiQueue # <<>>
    /\ run_search_callback(uiQueue[NextCallback(uiQueue)])
    /\ uiQueue' = Without(uiQueue, NextCallback(uiQueue))
    /\ UNCHANGED <<quality_var, uiVars, ffmpeg_available, ffmpeg_installed,
                   cacheVars, pending_resets, histVars, now, workerVars, timers,
                   ghostVars, miscVars>>

\* The download worker.
CatchDlWorker ==
    /\ \E i \in DOMAIN downloads :
            \/ download_start(i)
            \/ download_return(i)
            \/ \E e \in DownloadErrors : download_raise(i, e)
            \/ download_finish(i)
    /\ UNCHANGED <<quality_var, search_results, uiVars, ffmpeg_available,
                   ffmpeg_installed, cacheVars, status_label, pending_resets,
                   histVars, now, probes, installs, searches, timers, handled,
                   miscVars>>

CatchNext ==
    \/ QualType \/ DlKeyRelease \/ CatchReturn \/ CatchClick \/ CatchSearch
    \/ ProbeWorker \/ CatchDlWorker \/ CatchSearchWorker
    \/ ProbeCallback \/ DlCallback \/ CatchSearchCallback \/ DlStatusReset

CatchSpec == DlInit /\ [][CatchNext]_vars


\* Where a worker's thread function can be: no position stands for an error
\* that left the function.
ProbePcs == {"extract", "cached", "finally", "done"}
DownloadPcs == {"start", "extract", "returned", "failed", "done"}
SearchPcs == {"extract", "done"}

\* The callbacks that show a failure, and the last callback queued.
ErrorOutcomes ==
    {"analysis_failed", "show_ffmpeg_error", "error_notification", "search_failed"}
QueuedLast(fns) ==
    /\ Len(uiQueue') = Len(uiQueue) + 1
    /\ SubSeq(uiQueue', 1, Len(uiQueue)) = uiQueue
    /\ uiQueue'[Len(uiQueue')].fn \in fns

\* C19: an error raised by the extractor in a probe, download or search
\* worker is caught in that worker: the raising step queues a callback that
\* shows the failure (status message, notification or dialog) and the thread
\* function goes on to its normal end; run on the UI thread, the callback
\* shows the failure.
C19_ErrorsCaught ==
    /\ [](/\ \A i \in DOMAIN probes : probes[i].pc \in ProbePcs
          /\ \A i \in DOMAIN downloads : downloads[i].pc \in DownloadPcs
          /\ \A i \in DOMAIN searches : searches[i].pc \in SearchPcs)
    /\ [][\A i \in DOMAIN probes :
            ProbeFails(i) => QueuedLast({"analysis_failed"})]_vars
    /\ [][\A i \in DOMAIN downloads :
            (downloads[i].pc = "extract"
               /\ downloads'[i].pc \notin {"extract", "returned"})
            => /\ downloads'[i].pc = "failed"
               /\ QueuedLast({"show_ffmpeg_error", "error_notification"})]_vars
    /\ [][\A i \in DOMAIN searches :
            (/\ searches[i].pc = "extract"
             /\ searches'[i] # searches[i]
             /\ trace'.op = "search_raise")
            => /\ searches'[i] = Ended
               /\ QueuedLast({"search_failed"})]_vars
    /\ [][(/\ uiQueue # <<>>
           /\ uiQueue' = Without(uiQueue, NextCallback(uiQueue))
           /\ uiQueue[NextCallback(uiQueue)].fn \in ErrorOutcomes)
          => /\ trace'.thread = "ui"
             /\ \/ status_label'.msg \in {"Analysis failed", "Error", "Search failed"}
                \/ dialogs' = dialogs + 1]_vars

\* The probe, the download and the search have all failed and ended, and
\* the search's failure message is on display.
C19_Witness ==
    /\ Len(probes) = 1 /\ probes[1] = Ended
    /\ video_info_cache[CacheKeyOf(TubeUrl)] = None
    /\ Len(downloads) = 1 /\ downloads[1] = Ended
    /\ \E j \in 1..Len(handled[1]) : handled[1][j].fn = "error_notification"
    /\ Len(searches) = 1 /\ searches[1] = Ended
    /\ trace.op = "search_failed"
    /\ status_label = Status("Search failed")


\* ---------------------------------------------------------------------------
\* BlockSpec: the startup check, the installation, probes, downloads and
\* searches of one process.
\* ---------------------------------------------------------------------------

\* In this specification the user starts an operation when the threads of
\* the earlier ones, the installation's included, have ended.
BlockStart ==
    /\ Idle
    /\ Running(installs) = {}
    /\ InstClick \/ CatchReturn \/ CatchClick \/ CatchSearch

BlockNext ==
    \/ QualType \/ DlKeyRelease \/ InstCheckFfmpeg \/ BlockStart
    \/ InstWorker \/ ProbeWorker \/ QualWorker \/ CatchSearchWorker
    \/ InstCallback \/ ProbeCallback \/ DlCallback \/ CatchSearchCallback
    \/ DlStatusReset

BlockSpec == InstallInit /\ [][BlockNext]_vars

\* The last step called the extractor, downloaded FFmpeg or ran the ffmpeg
\* executable.
Blocked == trace.extract \/ trace.blocking # "none"

\* C21: the UI thread never makes a network call nor runs the ffmpeg
\* executable: every extractor call, the FFmpeg download and every run of
\* ffmpeg, the startup check included, happens on a worker thread.
C21_UiNeverBlocks == Blocked => trace.thread # "ui"

\* The part of C21 that holds: extractor calls and the FFmpeg download happen
\* on worker threads only.
C21_NetworkOffUi ==
    (trace.extract \/ trace.blocking = "urlretrieve") => trace.thread # "ui"


\* C22: the configuration a download worker hands to the extractor is built
\* from the format and the quality tier in effect when start_download_fast
\* was called; a change of the settings after that call does not change it.
C22_ConfigAtClick ==
    [][\A i \in DOMAIN downloads :
            download_start(i) =>
                downloads'[i].ydl_opts =
                    Some(ydl_opts(downloads[i].asked[1].format,
                                  downloads[i].asked[1].quality))]_vars

\* The part of C22 that holds: once the worker thread has built its
\* configuration, a change of the settings does not touch it.
C22_ConfigFixedOnceBuilt ==
    [][\A i \in DOMAIN downloads :
            (downloads[i].pc \in {"extract", "returned", "failed"}
               /\ downloads'[i] # Ended)
            => downloads'[i].ydl_opts = downloads[i].ydl_opts]_vars


\* ---------------------------------------------------------------------------
\* CapSpec: a program start on each history file of InitStores, the file
\* longer than the cap included, followed by appends and clears.
\* ---------------------------------------------------------------------------

CapInit == Init /\ ffmpeg_installed

CapAppend ==
    /\ n_appends < MaxLoadLen
    /\ add_to_history(HistInfo(n_appends + 1), SaveOutcomes)
    /\ UNCHANGED <<quality_var, search_results, uiVars, ffmpeg_available,
                   ffmpeg_installed, cacheVars, status_label, pending_resets,
                   now, workerVars, uiQueue, timers, ghostVars, miscVars>>

CapNext == CapAppend \/ HistClear \/ HistStatusReset

CapSpec == CapInit /\ [][CapNext]_vars

\* C23: in every reachable state the history log has at most 20 items,
\* whatever the length of the sequence load_history read.
C23_HistoryCapAlways == Len(download_history) <= HistoryCap

\* The part of C23 that holds: add_to_history and clear_history keep a log
\* within the cap within it, and make no longer log longer still.
C23_CapKept ==
    [][Len(download_history') <=
          (IF Len(download_history) > HistoryCap
           THEN Len(download_history) ELSE HistoryCap)]_vars


\* The step is a mutation of the log, add_to_history or a confirmed
\* clear_history, whose write of the file ended as outcomes says.
Mutation(outcomes) ==
    /\ trace'.op \in {"add_to_history", "clear_history"}
    /\ trace'.hist
    /\ trace'.save \in outcomes
    /\ vars' # vars

\* The log the mutation leaves: the item inserted in front within the cap,
\* or nothing.
Mutated ==
    IF trace'.op = "clear_history" THEN <<>>
    ELSE Inserted(download_history, appended'[Len(appended')])

\* C24: after an add_to_history or a confirmed clear_history whose write
\* succeeds the history file holds the in-memory log, and a program start on
\* a file that holds the log restores exactly that log; when the write fails
\* the log is mutated all the same and nothing but the mutation's own
\* message is shown.
C24_StoreFollowsLog ==
    /\ [][Mutation({"ok"}) =>
            /\ download_history' = Mutated
            /\ store' = PickledFile(download_history')
            /\ load_history(store') = download_history']_vars
    /\ [][(trace'.op = "load_history" /\ store = PickledFile(download_history))
            => download_history' = download_history]_vars
    /\ [][Mutation({"open_failed", "dump_failed"}) =>
            /\ download_history' = Mutated
            /\ store' # PickledFile(download_history') \/ store' = store
            /\ status_label' = IF trace'.op = "clear_history"
                               THEN Status("History cleared") ELSE status_label
            /\ dialogs' = dialogs]_vars

\* A program start restored the two items the run before had appended and
\* written.
C24_Witness ==
    /\ trace.op = "load_history"
    /\ Len(download_history) = 2
    /\ store = PickledFile(download_history)
    /\ download_history[1] = HistoryItem(HistInfo(2))
    /\ download_history[2] = HistoryItem(HistInfo(1))
    /\ n_appends = 0


\* The number a key of the progress dictionary holds, if it holds one.
HasNumber(v) == v # None /\ ~v[1].none

\* The dictionary gives an exact or an estimated total and non-negative
\* downloaded bytes.
HasTotal(d) ==
    /\ d.downloaded_bytes >= 0
    /\ HasNumber(d.total_bytes) \/ HasNumber(d.total_bytes_estimate)

\* The total the hook divides by is positive and not below the downloaded
\* bytes.
WithinTotal(d) ==
    LET total == IF d.total_bytes # None THEN d.total_bytes
                 ELSE d.total_bytes_estimate
    IN  /\ HasNumber(total)
        /\ total[1].n > 0
        /\ d.downloaded_bytes <= total[1].n

\* The fraction lies in [0, 1].
InUnitInterval(f) == f.den > 0 /\ 0 <= f.num /\ f.num <= f.den

\* The call of the hook for download i with d queues a fraction in [0, 1]
\* and raises nothing.
QueuesUnitFraction(i) ==
    /\ downloads'[i].pc = "extract"
    /\ Len(uiQueue') = Len(uiQueue) + 1
    /\ uiQueue'[Len(uiQueue')].fn = "update_progress_fast"
    /\ InUnitInterval(uiQueue'[Len(uiQueue')].arg[1])

\* C25: for every progress dictionary with status 'downloading', non-negative
\* downloaded bytes and an exact or an estimated total, the hook raises
\* nothing and the fraction handed to update_progress_fast lies in [0, 1].
C25_FractionInUnitInterval ==
    [][\A i \in DOMAIN downloads : \A d \in HookInputs :
          (d.status = "downloading" /\ HasTotal(d) /\ download_progress(i, d))
          => QueuesUnitFraction(i)]_vars

\* The part of C25 that holds: the same for the dictionaries whose total is
\* positive and not below the downloaded bytes.
C25_FractionWithinTotal ==
    [][\A i \in DOMAIN downloads : \A d \in HookInputs :
          (d.status = "downloading" /\ HasTotal(d) /\ WithinTotal(d)
             /\ download_progress(i, d))
          => QueuesUnitFraction(i)]_vars


\* The UI thread runs the add_to_history callback of download i in this step.
AddRuns(i) ==
    /\ Len(handled'[i]) = Len(handled[i]) + 1
    /\ handled'[i][Len(handled'[i])].fn = "add_to_history"

\* C26: the format recorded in the history item of a completed download is
\* the format its worker started with, whatever format the user selected
\* while it ran (compared while the worker still holds its format, before
\* its last step).
C26_RecordedFormatIsStarted ==
    [][\A i \in DOMAIN downloads :
          (AddRuns(i) /\ downloads[i].pc = "returned")
          => Some(download_history'[1].format) = downloads[i].format]_vars

\* What the code records instead: the format selected when the callback
\* runs on the UI thread.
C26_RecordedFormatIsCurrent ==
    [][\A i \in DOMAIN downloads :
          AddRuns(i) => download_history'[1].format = format_var]_vars


\* --------------------------------------------- release of the probe guard

\* The probes started one after the other by <Return> and paste, their
\* workers and their callbacks, without the clock.
GuardNext ==
    \/ ProbeType \/ ProbeKeyRelease \/ ProbeReturn \/ ProbePaste
    \/ ProbeWorker \/ ProbeCallback

\* A started thread keeps running until it ends (the extractor returns or
\* raises within its socket timeout), and the UI loop runs the callbacks
\* queued with after(0, ...).
GuardFair == WF_vars(ProbeWorker) /\ WF_vars(ProbeCallback)

GuardSpec == ProbeInit /\ [][GuardNext]_vars /\ GuardFair

\* Probe worker i has been started and has not ended.
ProbeRunning(i) == i \in DOMAIN probes /\ probes[i].pc # "done"

\* Probe worker i takes its last step.
ProbeEnds(i) == ProbeRunning(i) /\ probes'[i].pc = "done"

\* analyze_url_fast is called, after a probe has ended and with the guard
\* clear, for a URL that has no fresh cache entry.
AnalyzeAfterProbe(url) ==
    /\ trace'.url = Some(url)
    /\ url # EmptyUrl
    /\ ~is_analyzing
    /\ ~FreshEntry(url)
    /\ \E i \in DOMAIN probes : probes[i].pc = "done"

\* A new worker for the URL is started and the guard is set.
ProbeStarted(url) ==
    /\ Len(probes') = Len(probes) + 1
    /\ probes'[Len(probes')].pc = "extract"
    /\ probes'[Len(probes')].url = url
    /\ is_analyzing'

\* C27: every probe worker, whether the extractor succeeds or raises,
\* eventually ends and clears is_analyzing with its last step, so the guard
\* never stays set forever; after a probe has ended, a later analyze_url_fast
\* for a URL with no fresh cache entry starts a new worker.
C27_GuardReleased ==
    /\ \A i \in 1..MaxProbes : ProbeRunning(i) ~> ~ProbeRunning(i)
    /\ [][\A i \in DOMAIN probes : ProbeEnds(i) => ~is_analyzing']_vars
    /\ is_analyzing ~> ~is_analyzing
    /\ [][\A url \in ProbeUrls :
             AnalyzeAfterProbe(url) => ProbeStarted(url)]_vars

\* The first probe has ended on a raising extractor (nothing is cached) and
\* a second worker has been started.
C27_Witness ==
    /\ Len(probes) = 2
    /\ probes[1].pc = "done"
    /\ probes[2].pc = "extract"
    /\ is_analyzing
    /\ \A k \in DOMAIN video_info_cache : video_info_cache[k] = None

====
